---- MODULE Spec2Model ----
(***************************************************************************)
(* State-machine model of the WeFlow report-generation pipeline:           *)
(*   - AnnualReportService.generateReportWithConfig and                    *)
(*     computeLongestStreak            (src/src/types/sns.ts)              *)
(*   - DualReportService.generateReportWithConfig and the dual report      *)
(*     worker                (src/electron/services/dualReportService.ts,  *)
(*                            src/src/types/sns.ts lines 73-93)            *)
(*                                                                         *)
(* One action is one stretch of code between two awaits.  The message      *)
(* store (wcdbService) is an external collaborator: each of its calls      *)
(* answers with a nondeterministic result drawn from a small set, and a    *)
(* cursor delivers its rows in non-decreasing timestamp order.             *)
(*                                                                         *)
(* Time: createTime is epoch seconds.  The local time zone of the model    *)
(* is UTC, so local midnight of t is (t*1000 \div 86400000) * 86400000 ms. *)
(* A Date object is modelled by its millisecond value, null by Null.       *)
(* A session id is a positive integer, the empty string '' is NoSession.   *)
(***************************************************************************)
EXTENDS Integers, Sequences, FiniteSets, TLC

(***************************************************************************)
(* Bounds of the model.                                                    *)
(***************************************************************************)
MaxSessions == 2
MaxRows == 4
Tick == 101

\* A batch holds at most half of the rows of a request, and a cursor
\* delivers at most one batch more than that.
MaxBatch == MaxRows \div 2
MaxFetch == MaxBatch + 1

(***************************************************************************)
(* Program constants.                                                      *)
(***************************************************************************)
CONVERSATION_GAP == 3600
RESPONSE_CEILING == 86400
DAY_MS == 86400000
PROGRESS_INTERVAL == 200
STREAK_PROGRESS_INTERVAL == 250
MIN_RESPONSE_SAMPLES == 10
Null == -1
InvalidDate == -2
NoSession == 0

(***************************************************************************)
(* Maps (JavaScript Map / object): functions whose domain is the key set.  *)
(***************************************************************************)
EmptyMap == [k \in {} |-> 0]

MapGet(m, k, dflt) == IF k \in DOMAIN m THEN m[k] ELSE dflt

MapSet(m, k, v) == [x \in (DOMAIN m) \cup {k} |-> IF x = k THEN v ELSE m[x]]

Has(r, f) == f \in DOMAIN r

RECURSIVE SumSeq(_)
SumSeq(s) == IF s = <<>> THEN 0 ELSE Head(s) + SumSeq(Tail(s))

RECURSIVE SumMap(_)
SumMap(m) ==
  IF DOMAIN m = {} THEN 0
  ELSE LET k == CHOOSE x \in DOMAIN m : TRUE
       IN m[k] + SumMap([x \in (DOMAIN m) \ {k} |-> m[x]])

Min(a, b) == IF a < b THEN a ELSE b

(***************************************************************************)
(* Date arithmetic (new Date(createTime * 1000) and its getters, UTC).     *)
(***************************************************************************)
DateOf(createTime) == createTime * 1000

DayDate(dt) == (dt \div DAY_MS) * DAY_MS

DayIndex(dayDate) == dayDate \div DAY_MS

GetHours(dt) == (dt % DAY_MS) \div 3600000

\* Date.getDay(): 0 = Sunday; 1970-01-01 (day 0) was a Thursday.
GetDay(dt) == ((dt \div DAY_MS) + 4) % 7

WeekdayIndex(dt) == IF GetDay(dt) = 0 THEN 6 ELSE GetDay(dt) - 1

(***************************************************************************)
(* The rows a cursor can deliver.  Monday is 1970-01-05 00:00.             *)
(***************************************************************************)
Monday == 4 * 86400

\* Timestamps of the rows.  0 stands for a missing or zero create_time.
T0 == Monday + 1000                  \* Mon 00:16:40
T1 == Monday + 1000 + 3600           \* Mon 01:16:40, 3600 s after T0
T2 == Monday + 1000 + 7201           \* Mon 02:16:41, 3601 s after T1
TTue == Monday + 86400 + 36000       \* Tue 10:00
TWed == Monday + 2 * 86400 + 36000   \* Wed 10:00
TFri == Monday + 4 * 86400 + 25200   \* Fri 07:00
TEarly == Monday + 500               \* Mon 00:08:20, 500 s before T0
TLate == Monday + 1500               \* Mon 00:25:00, 500 s after T0
TBeforeSix == Monday + 6 * 3600 - 1  \* Mon 05:59:59
TSix == Monday + 6 * 3600            \* Mon 06:00:00


(***************************************************************************)
(* Strings are sequences of UTF-16 code units, buffers sequences of bytes. *)
(***************************************************************************)
RECURSIVE IndexFrom(_, _, _)
IndexFrom(s, sub, k) ==
  IF k + Len(sub) - 1 > Len(s) THEN 0
  ELSE IF SubSeq(s, k, k + Len(sub) - 1) = sub THEN k
  ELSE IndexFrom(s, sub, k + 1)

\* String.prototype.includes
Includes(s, sub) == IndexFrom(s, sub, 1) # 0

\* String.prototype.startsWith
StartsWith(s, sub) == Len(s) >= Len(sub) /\ SubSeq(s, 1, Len(sub)) = sub

\* The white space String.prototype.trim removes (space, tab, LF, VT, FF, CR).
WhiteSpace == {32, 9, 10, 11, 12, 13}

RECURSIVE TrimLeft(_)
TrimLeft(s) ==
  IF s # <<>> /\ Head(s) \in WhiteSpace THEN TrimLeft(Tail(s)) ELSE s

RECURSIVE TrimRight(_)
TrimRight(s) ==
  IF s # <<>> /\ s[Len(s)] \in WhiteSpace
  THEN TrimRight(SubSeq(s, 1, Len(s) - 1)) ELSE s

Trim(s) == TrimRight(TrimLeft(s))

StrHttp == <<104, 116, 116, 112>>          \* "http"
StrLt == <<60>>                            \* "<"
StrBracket == <<91>>                       \* "["
StrXml == <<60, 63, 120, 109, 108>>        \* "<?xml"

HexDigits == (48 .. 57) \cup (65 .. 70) \cup (97 .. 102)

Base64Chars == (65 .. 90) \cup (97 .. 122) \cup (48 .. 57) \cup {43, 47, 61}

looksLikeHex(s) ==
  /\ Len(s) % 2 = 0
  /\ Len(s) > 0
  /\ \A k \in 1 .. Len(s) : s[k] \in HexDigits

looksLikeBase64(s) ==
  /\ Len(s) % 4 = 0
  /\ Len(s) > 0
  /\ \A k \in 1 .. Len(s) : s[k] \in Base64Chars

HexVal(c) ==
  IF c \in 48 .. 57 THEN c - 48
  ELSE IF c \in 65 .. 70 THEN c - 55 ELSE c - 87

\* Buffer.from(raw, 'hex') of a string that looks like hex.
HexBytes(s) ==
  [k \in 1 .. (Len(s) \div 2) |-> 16 * HexVal(s[2 * k - 1]) + HexVal(s[2 * k])]

Base64Val(c) ==
  IF c \in 65 .. 90 THEN c - 65
  ELSE IF c \in 97 .. 122 THEN c - 71
  ELSE IF c \in 48 .. 57 THEN c + 4
  ELSE IF c = 43 THEN 62 ELSE 63

\* The sextets of a base64 string up to its first padding character.
RECURSIVE Sextets(_)
Sextets(s) ==
  IF s = <<>> \/ Head(s) = 61 THEN <<>>
  ELSE <<Base64Val(Head(s))>> \o Sextets(Tail(s))

RECURSIVE SextetBytes(_)
SextetBytes(q) ==
  IF Len(q) < 2 THEN <<>>
  ELSE IF Len(q) = 2 THEN <<q[1] * 4 + (q[2] \div 16)>>
  ELSE IF Len(q) = 3
    THEN <<q[1] * 4 + (q[2] \div 16), (q[2] % 16) * 16 + (q[3] \div 4)>>
  ELSE <<q[1] * 4 + (q[2] \div 16), (q[2] % 16) * 16 + (q[3] \div 4),
         (q[3] % 4) * 64 + q[4]>> \o SextetBytes(SubSeq(q, 5, Len(q)))

\* Buffer.from(raw, 'base64') of a string that looks like base64.
Base64Bytes(s) == SextetBytes(Sextets(s))

REPLACEMENT == 65533

IsCont(b) == b >= 128 /\ b <= 191

\* Buffer.toString('utf-8'): an ill-formed sequence decodes to U+FFFD.  Code
\* points are limited to the Basic Multilingual Plane (1 to 3 bytes); a
\* 4-byte lead decodes as ill-formed.
RECURSIVE Utf8Decode(_)
Utf8Decode(b) ==
  IF b = <<>> THEN <<>>
  ELSE IF b[1] < 128 THEN <<b[1]>> \o Utf8Decode(Tail(b))
  ELSE IF b[1] >= 194 /\ b[1] <= 223 /\ Len(b) >= 2 /\ IsCont(b[2])
    THEN <<(b[1] - 192) * 64 + (b[2] - 128)>> \o Utf8Decode(SubSeq(b, 3, Len(b)))
  ELSE IF b[1] >= 224 /\ b[1] <= 239 /\ Len(b) >= 3 /\ IsCont(b[2]) /\ IsCont(b[3])
          /\ (b[1] # 224 \/ b[2] >= 160) /\ (b[1] # 237 \/ b[2] <= 159)
    THEN <<(b[1] - 224) * 4096 + (b[2] - 128) * 64 + (b[3] - 128)>>
         \o Utf8Decode(SubSeq(b, 4, Len(b)))
  ELSE <<REPLACEMENT>> \o Utf8Decode(Tail(b))

CountOf(s, c) == Cardinality({k \in 1 .. Len(s) : s[k] = c})

RECURSIVE Without(_, _)
Without(s, c) ==
  IF s = <<>> THEN <<>>
  ELSE IF Head(s) = c THEN Without(Tail(s), c)
  ELSE <<Head(s)>> \o Without(Tail(s), c)

\* The bytes 28 B5 2F FD: readUInt32LE(0) = 0xFD2FB528.
ZstdMagic == <<40, 181, 47, 253>>

\* fzstd.decompress is an external library.  A frame of the model is the
\* magic number followed by a stored block: one byte giving the length of
\* the content, then the content.  Any other frame makes decompress throw,
\* which is reported as the empty sequence of bytes and the flag ok = FALSE.
ZstdDecompress(data) ==
  IF Len(data) >= 5 /\ data[5] = Len(data) - 5
  THEN [ok |-> TRUE, bytes |-> SubSeq(data, 6, Len(data))]
  ELSE [ok |-> FALSE, bytes |-> <<>>]

decodeBinaryContent(data) ==
  IF Len(data) = 0 THEN <<>>
  ELSE IF Len(data) >= 4 /\ SubSeq(data, 1, 4) = ZstdMagic
    THEN IF ZstdDecompress(data).ok
         THEN Utf8Decode(ZstdDecompress(data).bytes)
         ELSE <<>>
  ELSE LET decoded == Utf8Decode(data)
           replacementCount == CountOf(decoded, REPLACEMENT)
       IN IF replacementCount * 5 < Len(decoded)
          THEN Without(decoded, REPLACEMENT)
          ELSE data       \* toString('latin1'): one code unit per byte

decodeMaybeCompressed(raw) ==
  IF raw = <<>> THEN <<>>
  ELSE IF looksLikeHex(raw) THEN decodeBinaryContent(HexBytes(raw))
  ELSE IF looksLikeBase64(raw) THEN decodeBinaryContent(Base64Bytes(raw))
  ELSE raw

\* A faulty variant of decodeMessageContent: the primary field is tried
\* first and the fallback field only when the primary decodes to nothing.
decodeMessageContentPrimaryFirst(messageContent, compressContent) ==
  LET content == decodeMaybeCompressed(messageContent)
  IN IF content = <<>> THEN decodeMaybeCompressed(compressContent) ELSE content

\* Lines 263-269.
decodeMessageContent(messageContent, compressContent) ==
  LET content == decodeMaybeCompressed(compressContent)
  IN IF content = <<>> THEN decodeMaybeCompressed(messageContent) ELSE content

\* local_type 1 is text, 3 image, 34 voice, 47 emoji.  The second text type
\* of the code, 244813135921, is beyond TLC's 32-bit integers and is
\* represented by LOCAL_TYPE_TEXT_EXT.
LOCAL_TYPE_TEXT == 1
LOCAL_TYPE_TEXT_EXT == 244813135

\* Texts are sequences of character codes.
TextOk == <<111, 107>>                    \* "ok"

\* Texts at the limits of the phrase filters.
Repeat(c, n) == [k \in 1 .. n |-> c]

TextGt == <<97, 62, 98>>                  \* "a>b"
TextTag == <<97, 60, 98>>                 \* "a<b"
TextUrl == <<104, 116, 116, 112, 58>>     \* "http:"
TextBracket == <<91, 120>>                \* "[x"
TextShort == <<120>>                      \* "x"
TextPadded == <<32, 111, 107, 32>>        \* " ok "
TextSpaced == <<97, 32, 9, 98>>           \* "a", a space, a tab, "b"
Text20 == Repeat(33, 20)                  \* "!" 20 times
Text21 == Repeat(33, 21)
Text50 == Repeat(33, 50)
Text51 == Repeat(33, 51)

\* Phrase number k, two characters that are no hexadecimal digits.
PhraseText(k) == <<103 + (k \div 10), 48 + (k % 10)>>

PhraseRow(k) ==
  [ create_time |-> T0, is_send |-> TRUE, local_type |-> LOCAL_TYPE_TEXT,
    message_content |-> PhraseText(k), compress_content |-> <<>> ]

\* A batch with the phrases 1 .. n, then the same once more, then phrase
\* n + 1 three times.
BulkBatch(n) ==
  [k \in 1 .. 2 * n + 3 |->
     IF k <= 2 * n THEN PhraseRow(((k - 1) % n) + 1) ELSE PhraseRow(n + 1)]

\* Contents as the store may hold them: hex and base64 forms of short
\* texts, and plain texts.
TextAbcd == <<97, 98, 99, 100>>                          \* "abcd"
TextHexOfAbcd == <<54, 49, 54, 50, 54, 51, 54, 52>>      \* "61626364"
TextHexOfOk == <<54, 102, 54, 98>>                       \* "6f6b"
TextBase64OfHi == <<97, 71, 107, 104>>                   \* "aGkh" ("hi!")
TextHi == <<104, 105, 33>>                               \* "hi!"
TextGood == <<103, 111, 111, 100>>                       \* "good"

\* Hex forms of two zstd frames: "28b52ffd09", whose block length does not
\* fit, and "28b52ffd026f6b", which holds "ok".
TextZstdBad == <<50, 56, 98, 53, 50, 102, 102, 100, 48, 57>>
TextZstdOk == <<50, 56, 98, 53, 50, 102, 102, 100, 48, 50, 54, 102, 54, 98>>

RowsOf(times, senders, types, texts) ==
  [create_time : times, is_send : senders, local_type : types,
   message_content : texts, compress_content : {<<>>}]

SessionNames == 1 .. MaxSessions

(***************************************************************************)
(* State.                                                                  *)
(***************************************************************************)
VARIABLES
  store,        \* what the message store holds and how its calls may answer
  kind,         \* "annual", "dual" or "years": the request that is handled
  year,         \* params.year
  pc,           \* position of the request in generateReportWithConfig
  sessionIds,   \* annual: result of getPrivateSessions
  d,            \* annual: result.data of getAnnualReportStats
  extras,       \* annual: result of getAnnualReportExtras
  acc,          \* annual: the accumulators of one report generation
  scan,         \* annual: loop variables of the full scan
  cls,          \* annual: frame of computeLongestStreak
  dual,         \* dual: local variables of generateReportWithConfig
  cursor,       \* the open message cursor ([sid |-> NoSession] when none)
  elapsed,      \* Date.now() - lastProgressAt of the running scan, saturating
  progressLog,  \* percent values handed to the progress sink, in order
  posted,       \* message types posted to parentPort by the dual worker
  result,       \* value returned by generateReportWithConfig
  log,          \* history: rows delivered to the running request, in order
  api,          \* history: cursor calls made on the store
  other,        \* the locals of a second invocation of the service, if any
  edge,         \* years: local variables of getAvailableYears
  voice,        \* VoiceTranscribeService: downloadTasks and its download tasks
  transcribe,   \* transcribeWavBuffer, its worker and the messages between them
  timeline,     \* SnsService.exportTimeline: the variables of its page loop
  ranges        \* the byte ranges requested by a multi-connection download

vars ==
  <<store, kind, year, pc, sessionIds, d, extras, acc, scan, cls, dual, cursor, elapsed,
    progressLog, posted, result, log, api, other, edge, voice, transcribe, timeline,
    ranges>>

\* The variables of the report services, and those of the other services.
reports ==
  <<store, kind, year, pc, sessionIds, d, extras, acc, scan, cls, dual, cursor, elapsed,
    progressLog, posted, result, log, api, other, edge>>

services == <<voice, transcribe, timeline, ranges>>

ElapsedCap == 3 * Tick

NoCursor ==
  [sid |-> NoSession, last |-> 0, hasMore |-> FALSE, fetches |-> 0,
   handle |-> 0]

NoResult == [returned |-> FALSE]

ZeroHeatmap == [w \in 0 .. 6 |-> [h \in 0 .. 23 |-> 0]]

NoExtras == [called |-> FALSE]

\* getAvailableYears is not running.
NoEdge == [i |-> 0]

\* No download was asked for, no transcription, no export, no ranged download.
NoVoice == [entry |-> 0, tasks |-> <<>>, files |-> {}, calls |-> <<>>]

NoTranscribe ==
  [ pc |-> "none", worker |-> "none", chunks |-> 0, offset |-> 0, budget |-> 0,
    accumulatedText |-> <<>>, sent |-> <<>>, handled |-> 0, partials |-> <<>>,
    resolveCalls |-> <<>>, promise |-> <<>>, terminated |-> FALSE, vad |-> TRUE,
    events |-> {} ]

NoTimeline ==
  [ pc |-> "none", posts |-> <<>>, startTime |-> Null, endTime |-> Null,
    endTs |-> Null, hasMore |-> FALSE, allPosts |-> <<>>, pages |-> 0,
    split |-> FALSE ]

NoRanges ==
  [ pc |-> "none", service |-> "none", probed |-> FALSE, totalSize |-> 0,
    acceptRanges |-> FALSE, chunks |-> <<>> ]

NoStats == [total |-> 0, sessions |-> EmptyMap, daily |-> <<>>]

InitAcc ==
  [ heatmapData |-> ZeroHeatmap,
    midnightStats |-> EmptyMap,
    conversationStarts |-> EmptyMap,
    responseTimeStats |-> EmptyMap,
    phraseCount |-> <<>>,
    lastMessageTime |-> EmptyMap,
    dailyContactStats |-> EmptyMap,
    longestStreakSessionId |-> NoSession,
    longestStreakDays |-> 0,
    longestStreakStart |-> Null,
    longestStreakEnd |-> Null,
    useSqlExtras |-> FALSE,
    responseStatsFromSql |-> EmptyMap,
    topPhrasesFromSql |-> <<>>,
    streakComputedInLoop |-> FALSE ]

\* The per-session streak variables (lines 656-661 and 357-362).
InitStreak ==
  [ lastDayIndex |-> Null, currentStreak |-> 0, currentStart |-> Null,
    maxStreak |-> 0, maxStart |-> Null, maxEnd |-> Null ]

InitScan ==
  [ i |-> 0, streak |-> InitStreak,
    processedMessages |-> 0, lastProgressSent |-> 0 ]

InitCls ==
  [ i |-> 0, streak |-> InitStreak,
    bestSessionId |-> NoSession, bestDays |-> 0,
    bestStart |-> Null, bestEnd |-> Null, lastProgressSent |-> 0,
    shouldReportProgress |-> FALSE ]

InitDual ==
  [ isAllTime |-> FALSE, phase |-> "first", rows |-> <<>>,
    firstRows |-> <<>>, firstYearRows |-> <<>>,
    stats |-> [totalMessages |-> 0, totalWords |-> 0, imageCount |-> 0,
               voiceCount |-> 0, emojiCount |-> 0],
    wordCountMap |-> <<>>,
    totalForProgress |-> 0, processed |-> 0 ]

\* new Date(year, ...): a year from 0 to 99 stands for 1900 + year.
FullYear(y) == IF y \in 0 .. 99 THEN 1900 + y ELSE y

\* The days from 1970-01-01 to the first of January of year y.
DaysBeforeYear(y) ==
  365 * (y - 1970) + ((y - 1969) \div 4) - ((y - 1901) \div 100)
    + ((y - 1601) \div 400)

\* Lines 493-497 (dual report: lines 253-256): the time window handed to the
\* store, in seconds; begin = end = 0 asks for the whole history.
Window(y) ==
  IF y <= 0 THEN [begin |-> 0, end |-> 0]
  ELSE [ begin |-> DaysBeforeYear(FullYear(y)) * 86400,
         end |-> DaysBeforeYear(FullYear(y) + 1) * 86400 - 1 ]

\* Math.floor(Date.now() / 1000) of getFirstMessages: a moment after every
\* row of the store.
NowSeconds == DaysBeforeYear(2026) * 86400

\* Dual report, lines 214-215: safeBegin and safeEnd of getFirstMessages.
SafeWindow(w) ==
  [ begin |-> IF w.begin > 0 THEN w.begin ELSE 0,
    end |-> IF w.end > 0 THEN w.end ELSE NowSeconds ]

InitApi ==
  [ calls |-> {}, opened |-> <<>>, closed |-> <<>>, fetched |-> {},
    windows |-> {}, live |-> 0, heard |-> 0, quiet |-> ElapsedCap, spaced |-> TRUE,
    given |-> <<>>, shut |-> <<>> ]

\* The record of a call of openMessageCursor (ok: a cursor was given) and
\* of closeMessageCursor; live counts the cursors given and not yet closed.
\* The handle of a cursor is the number of the open call that gave it:
\* given lists the handles given, shut the handles closed.
OpenCall(a, sessionId, window, ok) ==
  [a EXCEPT !.opened = Append(@, sessionId),
            !.windows = @ \cup {window},
            !.live = IF ok THEN @ + 1 ELSE @,
            !.given = IF ok THEN Append(@, Len(a.opened) + 1) ELSE @]

\* The record of a bulk query over a time window.
BulkCall(a, call, window) ==
  [a EXCEPT !.calls = @ \cup {call}, !.windows = @ \cup {window}]

CloseCall(a, c) ==
  [a EXCEPT !.closed = Append(@, c.sid), !.shut = Append(@, c.handle),
            !.live = @ - 1]

(***************************************************************************)
(* Annual report: processing of one row in the full scan (lines 669-746).  *)
(***************************************************************************)
\* A faulty variant of IsNewConversation: a gap of exactly CONVERSATION_GAP
\* starts a conversation too.
IsNewConversationAtGap(a, sessionId, createTime) ==
  \/ sessionId \notin DOMAIN a.lastMessageTime
  \/ createTime - a.lastMessageTime[sessionId].time >= CONVERSATION_GAP

\* A faulty variant of IsNewConversation: only the first row of a session
\* starts a conversation.
IsNewConversationFirstOnly(a, sessionId, createTime) ==
  sessionId \notin DOMAIN a.lastMessageTime

\* Lines 682-683: no previous message of the session, or a gap above
\* CONVERSATION_GAP.
IsNewConversation(a, sessionId, createTime) ==
  \/ sessionId \notin DOMAIN a.lastMessageTime
  \/ createTime - a.lastMessageTime[sessionId].time > CONVERSATION_GAP

\* A faulty variant of IsResponse: a reply in the same second counts.
IsResponseAtZero(lastMsg, createTime, isSent) ==
  /\ lastMsg.isSent # isSent
  /\ isSent /\ ~lastMsg.isSent
  /\ createTime - lastMsg.time >= 0
  /\ createTime - lastMsg.time < RESPONSE_CEILING

\* A faulty variant of IsResponse: any change of sender counts.
IsResponseEitherWay(lastMsg, createTime, isSent) ==
  /\ lastMsg.isSent # isSent
  /\ createTime - lastMsg.time > 0
  /\ createTime - lastMsg.time < RESPONSE_CEILING

\* Lines 686-689: the row is a reply of self to the peer within the ceiling.
IsResponse(lastMsg, createTime, isSent) ==
  /\ lastMsg.isSent # isSent
  /\ isSent /\ ~lastMsg.isSent
  /\ createTime - lastMsg.time > 0
  /\ createTime - lastMsg.time < RESPONSE_CEILING

\* A faulty variant of ConversationStep: a conversation that self starts
\* is counted as initiated and as received.
ConversationStepCountsBoth(a, sessionId, createTime, isSent) ==
  LET starts0 == IF sessionId \in DOMAIN a.conversationStarts
                 THEN a.conversationStarts
                 ELSE MapSet(a.conversationStarts, sessionId,
                             [initiated |-> 0, received |-> 0])
      convStats == starts0[sessionId]
      isStart == IsNewConversation(a, sessionId, createTime)
      starts1 == IF ~isStart THEN starts0
                 ELSE IF isSent
                   THEN MapSet(starts0, sessionId,
                               [convStats EXCEPT !.initiated = @ + 1,
                                                 !.received = @ + 1])
                 ELSE MapSet(starts0, sessionId,
                             [convStats EXCEPT !.received = @ + 1])
      resp1 == IF ~isStart
                  /\ IsResponse(a.lastMessageTime[sessionId], createTime, isSent)
               THEN MapSet(a.responseTimeStats, sessionId,
                           Append(MapGet(a.responseTimeStats, sessionId, <<>>),
                                  createTime - a.lastMessageTime[sessionId].time))
               ELSE a.responseTimeStats
  IN [a EXCEPT !.conversationStarts = starts1,
               !.responseTimeStats = resp1,
               !.lastMessageTime =
                  MapSet(@, sessionId, [time |-> createTime, isSent |-> isSent])]

\* Lines 677-695.
ConversationStep(a, sessionId, createTime, isSent) ==
  LET starts0 == IF sessionId \in DOMAIN a.conversationStarts
                 THEN a.conversationStarts
                 ELSE MapSet(a.conversationStarts, sessionId,
                             [initiated |-> 0, received |-> 0])
      convStats == starts0[sessionId]
      isStart == IsNewConversation(a, sessionId, createTime)
      starts1 == IF ~isStart THEN starts0
                 ELSE IF isSent
                   THEN MapSet(starts0, sessionId,
                               [convStats EXCEPT !.initiated = @ + 1])
                 ELSE MapSet(starts0, sessionId,
                             [convStats EXCEPT !.received = @ + 1])
      resp1 == IF ~isStart
                  /\ IsResponse(a.lastMessageTime[sessionId], createTime, isSent)
               THEN MapSet(a.responseTimeStats, sessionId,
                           Append(MapGet(a.responseTimeStats, sessionId, <<>>),
                                  createTime - a.lastMessageTime[sessionId].time))
               ELSE a.responseTimeStats
  IN [a EXCEPT !.conversationStarts = starts1,
               !.responseTimeStats = resp1,
               !.lastMessageTime =
                  MapSet(@, sessionId, [time |-> createTime, isSent |-> isSent])]

\* A faulty variant of AnnualPhraseEligible: the upper limit is the dual
\* report's.
AnnualPhraseEligibleUpTo50(text) ==
  /\ Len(text) >= 2 /\ Len(text) <= 50
  /\ ~Includes(text, StrHttp) /\ ~Includes(text, StrLt)
  /\ ~StartsWith(text, StrBracket) /\ ~StartsWith(text, StrXml)

\* Lines 701-703.
AnnualPhraseEligible(text) ==
  /\ Len(text) >= 2 /\ Len(text) <= 20
  /\ ~Includes(text, StrHttp) /\ ~Includes(text, StrLt)
  /\ ~StartsWith(text, StrBracket) /\ ~StartsWith(text, StrXml)

\* Map.set on phraseCount: a Map iterates in insertion order, so the map is
\* the sequence of its entries.
PhraseIndex(m, text) ==
  IF \E k \in 1 .. Len(m) : m[k].phrase = text
  THEN CHOOSE k \in 1 .. Len(m) : m[k].phrase = text
  ELSE 0

PhraseAdd(m, text) ==
  IF PhraseIndex(m, text) = 0
  THEN Append(m, [phrase |-> text, count |-> 1])
  ELSE [m EXCEPT ![PhraseIndex(m, text)].count = @ + 1]

\* A faulty variant of PhraseStep: the texts of both sides are counted.
PhraseStepBothSides(a, row, isSent) ==
  IF row.local_type = LOCAL_TYPE_TEXT \/ row.local_type = LOCAL_TYPE_TEXT_EXT
  THEN LET text == Trim(decodeMessageContent(row.message_content,
                                             row.compress_content))
       IN IF AnnualPhraseEligible(text)
          THEN [a EXCEPT !.phraseCount = PhraseAdd(@, text)]
          ELSE a
  ELSE a

\* Lines 697-706.
PhraseStep(a, row, isSent) ==
  IF (row.local_type = LOCAL_TYPE_TEXT \/ row.local_type = LOCAL_TYPE_TEXT_EXT)
     /\ isSent
  THEN LET text == Trim(decodeMessageContent(row.message_content,
                                             row.compress_content))
       IN IF AnnualPhraseEligible(text)
          THEN [a EXCEPT !.phraseCount = PhraseAdd(@, text)]
          ELSE a
  ELSE a

\* A faulty variant of HeatmapStep: the row index is Date.getDay() itself,
\* which starts the week on Sunday.
HeatmapStepSundayFirst(a, dt) ==
  [a EXCEPT !.heatmapData[GetDay(dt)][GetHours(dt)] = @ + 1]

\* Lines 709-711.
HeatmapStep(a, dt) ==
  [a EXCEPT !.heatmapData[WeekdayIndex(dt)][GetHours(dt)] = @ + 1]

\* A faulty variant of StreakStep: a row of the last seen day extends the
\* run like a row of the next day.
StreakStepSameDayExtends(st, dayDate) ==
  LET dayIndex == DayIndex(dayDate)
      extend == st.lastDayIndex # Null /\ dayIndex - st.lastDayIndex <= 1
      cur == IF extend THEN st.currentStreak + 1 ELSE 1
      start == IF extend THEN st.currentStart ELSE dayDate
      better == cur > st.maxStreak
  IN [ lastDayIndex |-> dayIndex,
       currentStreak |-> cur,
       currentStart |-> start,
       maxStreak |-> IF better THEN cur ELSE st.maxStreak,
       maxStart |-> IF better THEN start ELSE st.maxStart,
       maxEnd |-> IF better THEN dayDate ELSE st.maxEnd ]

\* Lines 713-728: the streak of the session being scanned.
StreakStep(st, dayDate) ==
  LET dayIndex == DayIndex(dayDate)
  IN IF st.lastDayIndex = Null \/ dayIndex # st.lastDayIndex
     THEN LET extend == st.lastDayIndex # Null /\ dayIndex - st.lastDayIndex = 1
              cur == IF extend THEN st.currentStreak + 1 ELSE 1
              start == IF extend THEN st.currentStart ELSE dayDate
              better == cur > st.maxStreak
          IN [ lastDayIndex |-> dayIndex,
               currentStreak |-> cur,
               currentStart |-> start,
               maxStreak |-> IF better THEN cur ELSE st.maxStreak,
               maxStart |-> IF better THEN start ELSE st.maxStart,
               maxEnd |-> IF better THEN dayDate ELSE st.maxEnd ]
     ELSE st

\* A faulty variant of MidnightStep: the hour from 6 to 7 counts too.
MidnightStepThroughSix(a, sessionId, dt) ==
  IF GetHours(dt) >= 0 /\ GetHours(dt) <= 6
  THEN [a EXCEPT !.midnightStats =
          MapSet(@, sessionId, MapGet(a.midnightStats, sessionId, 0) + 1)]
  ELSE a

\* Lines 730-732.
MidnightStep(a, sessionId, dt) ==
  IF GetHours(dt) >= 0 /\ GetHours(dt) < 6
  THEN [a EXCEPT !.midnightStats =
          MapSet(@, sessionId, MapGet(a.midnightStats, sessionId, 0) + 1)]
  ELSE a

\* A faulty variant of PeakOf: of two days with the same count the later
\* one of the list is kept.
RECURSIVE PeakOfKeepsLast(_, _, _)
PeakOfKeepsLast(daily, key, count) ==
  IF daily = <<>> THEN [key |-> key, count |-> count]
  ELSE IF Head(daily).count >= count /\ Head(daily).count > 0
    THEN PeakOfKeepsLast(Tail(daily), Head(daily).day, Head(daily).count)
  ELSE PeakOfKeepsLast(Tail(daily), key, count)

\* Lines 546-555: the first day of d.daily with the highest positive count;
\* a day key 'YYYY-MM-DD' is modelled by its day index, '' by Null.
RECURSIVE PeakOf(_, _, _)
PeakOf(daily, key, count) ==
  IF daily = <<>> THEN [key |-> key, count |-> count]
  ELSE IF Head(daily).count > count
    THEN PeakOf(Tail(daily), Head(daily).day, Head(daily).count)
  ELSE PeakOf(Tail(daily), key, count)

PeakDayKey(data) == PeakOf(data.daily, Null, 0).key

\* Lines 734-741.
PeakDayStep(a, sessionId, dt, peakDayKey) ==
  IF peakDayKey # Null /\ DayIndex(DayDate(dt)) = peakDayKey
  THEN LET dayContactMap == MapGet(a.dailyContactStats, peakDayKey, EmptyMap)
       IN [a EXCEPT !.dailyContactStats =
             MapSet(@, peakDayKey,
                    MapSet(dayContactMap, sessionId,
                           MapGet(dayContactMap, sessionId, 0) + 1))]
  ELSE a

\* Line 528.
TotalMessagesForProgress(data, ids) ==
  IF data.total > 0 THEN data.total ELSE Len(ids)

\* Lines 669-746: one iteration of `for (const row of batch.rows)`.
\* st = [acc, scan].
ProcessRow(st, sessionId, row, data, ids) ==
  LET createTime == row.create_time
  IN IF createTime = 0 THEN st
     ELSE LET isSent == row.is_send
              dt == DateOf(createTime)
              a1 == ConversationStep(st.acc, sessionId, createTime, isSent)
              a2 == PhraseStep(a1, row, isSent)
              a3 == HeatmapStep(a2, dt)
              a4 == MidnightStep(a3, sessionId, dt)
              a5 == PeakDayStep(a4, sessionId, dt, PeakDayKey(data))
          IN [ acc |-> a5,
               scan |-> [st.scan EXCEPT
                 !.streak = StreakStep(@, DayDate(dt)),
                 !.processedMessages =
                    IF TotalMessagesForProgress(data, ids) > 0
                    THEN @ + 1 ELSE @ ] ]

\* The loop over the rows of a batch, in order.  The rows are folded by
\* halves, which gives the result of the row-by-row loop at a depth of
\* evaluation that grows with the logarithm of the batch's length.
RECURSIVE ProcessRows(_, _, _, _, _)
ProcessRows(st, sessionId, rows, data, ids) ==
  IF rows = <<>> THEN st
  ELSE IF Len(rows) = 1 THEN ProcessRow(st, sessionId, rows[1], data, ids)
  ELSE LET half == Len(rows) \div 2
           mid == ProcessRows(st, sessionId, SubSeq(rows, 1, half), data, ids)
       IN IF mid = mid       \* the first rows are evaluated before the rest
          THEN ProcessRows(mid, sessionId, SubSeq(rows, half + 1, Len(rows)),
                           data, ids)
          ELSE st

(***************************************************************************)
(* Annual report: the extras fast path (lines 572-642).                    *)
(***************************************************************************)
MapMerge(m, n) ==
  [k \in (DOMAIN m) \cup (DOMAIN n) |-> IF k \in DOMAIN n THEN n[k] ELSE m[k]]

\* A faulty variant of ExtrasStreak: the payload's streak never counts as
\* computed.
ExtrasStreakNeverComputed(a, data) ==
  IF Has(data, "streak") /\ data.streak.sessionId # NoSession
     /\ data.streak.days > 0
  THEN [a EXCEPT
         !.longestStreakSessionId = data.streak.sessionId,
         !.longestStreakDays = data.streak.days,
         !.longestStreakStart = data.streak.startDate,
         !.longestStreakEnd = data.streak.endDate ]
  ELSE a

\* Lines 625-635.  A date string is modelled by the Date it parses to, an
\* unparsable one by InvalidDate, a missing one by Null.
ExtrasStreak(a, data) ==
  IF Has(data, "streak") /\ data.streak.sessionId # NoSession
     /\ data.streak.days > 0
  THEN [a EXCEPT
         !.longestStreakSessionId = data.streak.sessionId,
         !.longestStreakDays = data.streak.days,
         !.longestStreakStart = data.streak.startDate,
         !.longestStreakEnd = data.streak.endDate,
         !.streakComputedInLoop =
            /\ data.streak.startDate # Null
            /\ data.streak.startDate # InvalidDate
            /\ data.streak.endDate # Null
            /\ data.streak.endDate # InvalidDate ]
  ELSE a

\* Lines 574-637, everything but the progress messages.
ApplyExtras(a, data, peakDayKey) ==
  LET a1 == IF Has(data, "heatmap")
            THEN [a EXCEPT !.heatmapData = data.heatmap] ELSE a
      a2 == IF Has(data, "midnight")
            THEN [a1 EXCEPT !.midnightStats = MapMerge(@, data.midnight)]
            ELSE a1
      a3 == IF Has(data, "conversation")
            THEN [a2 EXCEPT !.conversationStarts = MapMerge(@, data.conversation)]
            ELSE a2
      a4 == IF Has(data, "response")
            THEN [a3 EXCEPT !.responseStatsFromSql = data.response] ELSE a3
      a5 == IF peakDayKey # Null /\ Has(data, "peakDay")
               /\ DOMAIN data.peakDay # {}
            THEN [a4 EXCEPT !.dailyContactStats =
                    MapSet(@, peakDayKey, data.peakDay)]
            ELSE a4
      a6 == IF Has(data, "topPhrases") /\ Len(data.topPhrases) > 0
            THEN [a5 EXCEPT !.topPhrasesFromSql = data.topPhrases] ELSE a5
      a7 == ExtrasStreak(a6, data)
  IN [a7 EXCEPT !.useSqlExtras = TRUE]

ExtrasProgress == <<32, 33, 34, 35, 36, 37, 40>>

MondayDate == DateOf(Monday)

SampleHeatmap ==
  [ZeroHeatmap EXCEPT ![0][0] = 2, ![1][10] = 1]

\* Payloads the store may return; every field of a payload is optional.
FullPayload ==
  [ heatmap |-> SampleHeatmap,
    midnight |-> (1 :> 2),
    conversation |-> (1 :> [initiated |-> 1, received |-> 1]),
    response |-> (1 :> [avg |-> 30, fastest |-> 10, count |-> 12]),
    peakDay |-> (1 :> 2),
    topPhrases |-> <<[phrase |-> TextOk, count |-> 2]>>,
    streak |-> [sessionId |-> 1, days |-> 3, startDate |-> MondayDate,
                endDate |-> MondayDate + 2 * DAY_MS] ]

EmptyPayload == [k \in {} |-> 0]

\* A streak without its dates, and a response entry below the noise floor.
PartialPayload ==
  [ midnight |-> (1 :> 1),
    response |-> (1 :> [avg |-> 30, fastest |-> 30, count |-> 1]),
    streak |-> [sessionId |-> 1, days |-> 2, startDate |-> Null,
                endDate |-> InvalidDate] ]

\* A payload whose phrase list is in no order and names a phrase seen once.
UnrankedPayload ==
  [ topPhrases |-> <<[phrase |-> TextOk, count |-> 1],
                     [phrase |-> TextGt, count |-> 3]>> ]

PayloadChoices == {FullPayload, EmptyPayload, PartialPayload}

ExtrasFailed ==
  [called |-> TRUE, success |-> FALSE, hasData |-> FALSE, data |-> EmptyPayload]

ExtrasNoData ==
  [called |-> TRUE, success |-> TRUE, hasData |-> FALSE, data |-> EmptyPayload]

ExtrasWith(p) ==
  [called |-> TRUE, success |-> TRUE, hasData |-> TRUE, data |-> p]

ExtrasResults ==
  {ExtrasFailed, ExtrasNoData} \cup {ExtrasWith(p) : p \in PayloadChoices}

(***************************************************************************)
(* Annual report: assembly of the report (lines 797-1017).  The display    *)
(* name of a session is the session id itself (displayName || sessionId    *)
(* with no name stored).  A Map is iterated in insertion order, which for  *)
(* maps keyed by session id is the scan order: ascending session id.       *)
(* A report field that is null is NullField.                               *)
(***************************************************************************)
NullField == [null |-> TRUE]

\* Math.round(a / b) for a >= 0, b > 0.
RoundDiv(a, b) == (2 * a + b) \div (2 * b)

\* The first key, in ascending order, with the highest value above floor.
RECURSIVE ArgMaxFrom(_, _, _, _, _)
ArgMaxFrom(m, k, hi, best, bestVal) ==
  IF k > hi THEN [key |-> best, val |-> bestVal]
  ELSE IF k \in DOMAIN m /\ m[k] > bestVal
    THEN ArgMaxFrom(m, k + 1, hi, k, m[k])
  ELSE ArgMaxFrom(m, k + 1, hi, best, bestVal)

ArgMax(m, floor) == ArgMaxFrom(m, 1, MaxSessions + 1, NoSession, floor)

\* Days since 1970-01-01 to the civil date (proleptic Gregorian calendar).
CivilFromDays(z0) ==
  LET z == z0 + 719468
      era == z \div 146097
      doe == z - era * 146097
      yoe == (doe - doe \div 1460 + doe \div 36524 - doe \div 146096) \div 365
      doy == doe - (365 * yoe + yoe \div 4 - yoe \div 100)
      mp == (5 * doy + 2) \div 153
      dd == doy - (153 * mp + 2) \div 5 + 1
      mm == IF mp < 10 THEN mp + 3 ELSE mp - 9
      yy == yoe + era * 400 + (IF mm <= 2 THEN 1 ELSE 0)
  IN [y |-> yy, m |-> mm, d |-> dd]

\* Lines 324-329; an invalid Date formats as "NaN-NaN-NaN".
formatDateYmd(date) ==
  IF date = InvalidDate THEN [y |-> Null, m |-> Null, d |-> Null]
  ELSE CivilFromDays(date \div DAY_MS)

\* Lines 853-871.
PeakDayField(a, data) ==
  LET peak == PeakOf(data.daily, Null, 0)
  IN IF peak.key = Null THEN NullField
     ELSE LET top == ArgMax(MapGet(a.dailyContactStats, peak.key, EmptyMap), 0)
          IN [ null |-> FALSE, date |-> peak.key, messageCount |-> peak.count,
               topFriend |-> top.key, topFriendCount |-> top.val ]

\* Lines 873-890; percentage in tenths of a percent.
MidnightKingField(a) ==
  LET totalMidnight == SumMap(a.midnightStats)
      top == ArgMax(a.midnightStats, 0)
  IN IF totalMidnight > 0
     THEN [ null |-> FALSE, displayName |-> top.key, count |-> top.val,
            percentage10 |-> RoundDiv(top.val * 1000, totalMidnight) ]
     ELSE NullField

\* Lines 892-901.
LongestStreakField(a) ==
  IF a.longestStreakSessionId # NoSession /\ a.longestStreakDays > 0
     /\ a.longestStreakStart # Null /\ a.longestStreakEnd # Null
  THEN [ null |-> FALSE, friendName |-> a.longestStreakSessionId,
         days |-> a.longestStreakDays,
         startDate |-> formatDateYmd(a.longestStreakStart),
         endDate |-> formatDateYmd(a.longestStreakEnd) ]
  ELSE NullField

\* Lines 923-937; initiativeRate in tenths of a percent.
SocialInitiativeField(a) ==
  LET totalInitiated ==
        SumMap([k \in DOMAIN a.conversationStarts |->
                  a.conversationStarts[k].initiated])
      totalReceived ==
        SumMap([k \in DOMAIN a.conversationStarts |->
                  a.conversationStarts[k].received])
      totalConversations == totalInitiated + totalReceived
  IN IF totalConversations > 0
     THEN [ null |-> FALSE, initiatedChats |-> totalInitiated,
            receivedChats |-> totalReceived,
            initiativeRate10 |-> RoundDiv(totalInitiated * 1000, totalConversations) ]
     ELSE NullField

\* Lines 947-957: the entries of responseStatsFromSql that count.
SqlCounted(stats) ==
  {k \in DOMAIN stats : stats[k].count > 0 /\ stats[k].avg > 0}

\* Lines 971-979: the sessions of responseTimeStats that count.
ScanCounted(times) ==
  {k \in DOMAIN times : Len(times[k]) >= MIN_RESPONSE_SAMPLES}

\* The first session, in ascending order, of ks with the lowest average
\* num[k] / den[k].
RECURSIVE FastestFrom(_, _, _, _, _)
FastestFrom(ks, num, den, k, best) ==
  IF k > MaxSessions + 1 THEN best
  ELSE IF k \in ks
          /\ (best = NoSession \/ num[k] * den[best] < num[best] * den[k])
    THEN FastestFrom(ks, num, den, k + 1, k)
  ELSE FastestFrom(ks, num, den, k + 1, best)

\* Lines 941-990.
ResponseSpeedField(a) ==
  IF DOMAIN a.responseStatsFromSql # {}
  THEN LET stats == a.responseStatsFromSql
           ks == SqlCounted(stats)
           totalSum == SumMap([k \in ks |-> stats[k].avg * stats[k].count])
           totalCount == SumMap([k \in ks |-> stats[k].count])
           fastest == FastestFrom(ks, [k \in ks |-> stats[k].avg],
                                  [k \in ks |-> 1], 1, NoSession)
       IN IF totalCount > 0
          THEN [ null |-> FALSE,
                 avgResponseTime |-> RoundDiv(totalSum, totalCount),
                 fastestFriend |-> fastest,
                 fastestTime |-> stats[fastest].avg ]
          ELSE NullField
  ELSE LET times == a.responseTimeStats
           ks == ScanCounted(times)
           sums == [k \in ks |-> SumSeq(times[k])]
           lens == [k \in ks |-> Len(times[k])]
           fastest == FastestFrom(ks, sums, lens, 1, NoSession)
       IN IF SumMap(lens) > 0
          THEN [ null |-> FALSE,
                 avgResponseTime |-> RoundDiv(SumMap(sums), SumMap(lens)),
                 fastestFriend |-> fastest,
                 fastestTime |-> RoundDiv(sums[fastest], lens[fastest]) ]
          ELSE NullField

\* Array.prototype.sort((a, b) => b.count - a.count): stable, descending.
RECURSIVE InsertDesc(_, _)
InsertDesc(sorted, e) ==
  IF sorted = <<>> THEN <<e>>
  ELSE IF Head(sorted).count >= e.count
    THEN <<Head(sorted)>> \o InsertDesc(Tail(sorted), e)
  ELSE <<e>> \o sorted

RECURSIVE SortDesc(_)
SortDesc(s) ==
  IF s = <<>> THEN <<>>
  ELSE InsertDesc(SortDesc(SubSeq(s, 1, Len(s) - 1)), s[Len(s)])

Slice(s, n) == SubSeq(s, 1, Min(Len(s), n))

\* A faulty variant of AtLeastTwo: a phrase seen once is kept.
AtLeastOnce(e) == e.count >= 1

AtLeastTwo(e) == e.count >= 2

\* Lines 992-998.
TopPhrasesField(a) ==
  IF Len(a.topPhrasesFromSql) > 0 THEN a.topPhrasesFromSql
  ELSE Slice(SortDesc(SelectSeq(a.phraseCount, AtLeastTwo)), 32)

Abs(x) == IF x < 0 THEN 0 - x ELSE x

\* The keys of a map over session ids, in ascending order.
RECURSIVE KeysFrom(_, _)
KeysFrom(m, k) ==
  IF k > MaxSessions + 1 THEN <<>>
  ELSE IF k \in DOMAIN m THEN <<k>> \o KeysFrom(m, k + 1)
  ELSE KeysFrom(m, k + 1)

Keys(m) == KeysFrom(m, 1)

\* Lines 818-831.
CoreFriendsField(contactStats) ==
  LET ks == Keys(contactStats)
      entries == [j \in 1 .. Len(ks) |->
                    [ username |-> ks[j],
                      count |-> contactStats[ks[j]].sent + contactStats[ks[j]].received,
                      sentCount |-> contactStats[ks[j]].sent,
                      receivedCount |-> contactStats[ks[j]].received ]]
  IN Slice(SortDesc(entries), 3)

\* Lines 833-851.
MonthlyTopFriendsField(contactStats) ==
  [month \in 1 .. 12 |->
     LET top == ArgMax([k \in DOMAIN contactStats |->
                          MapGet(contactStats[k].monthly, month, 0)], 0)
     IN [month |-> month, displayName |-> top.key, messageCount |-> top.val]]

\* Lines 903-921: the first session whose sent/received ratio is nearest 1.
RECURSIVE MutualFrom(_, _, _)
MutualFrom(contactStats, k, best) ==
  IF k > MaxSessions + 1 THEN best
  ELSE IF k \in DOMAIN contactStats
          /\ contactStats[k].sent >= 50 /\ contactStats[k].received >= 50
          /\ (best = NoSession
              \/ Abs(contactStats[k].sent - contactStats[k].received)
                   * contactStats[best].received
                 < Abs(contactStats[best].sent - contactStats[best].received)
                   * contactStats[k].received)
    THEN MutualFrom(contactStats, k + 1, k)
  ELSE MutualFrom(contactStats, k + 1, best)

\* ratio in hundredths.
MutualFriendField(contactStats) ==
  LET best == MutualFrom(contactStats, 1, NoSession)
  IN IF best = NoSession THEN NullField
     ELSE [ null |-> FALSE, displayName |-> best,
            sentCount |-> contactStats[best].sent,
            receivedCount |-> contactStats[best].received,
            ratio100 |-> RoundDiv(contactStats[best].sent * 100,
                                  contactStats[best].received) ]

\* A faulty variant of ReportYear: only the year 0 is taken as given.
ReportYearAsGiven(y) == y

\* Lines 494-495.
ReportYear(y) == IF y <= 0 THEN 0 ELSE y

\* Lines 1000-1015.
AnnualReportData(a, data, y) ==
  [ year |-> ReportYear(y),
    totalMessages |-> data.total,
    totalFriends |-> Cardinality(DOMAIN data.sessions),
    coreFriends |-> CoreFriendsField(data.sessions),
    monthlyTopFriends |-> MonthlyTopFriendsField(data.sessions),
    peakDay |-> PeakDayField(a, data),
    longestStreak |-> LongestStreakField(a),
    activityHeatmap |-> a.heatmapData,
    midnightKing |-> MidnightKingField(a),
    mutualFriend |-> MutualFriendField(data.sessions),
    socialInitiative |-> SocialInitiativeField(a),
    responseSpeed |-> ResponseSpeedField(a),
    topPhrases |-> TopPhrasesField(a) ]

(***************************************************************************)
(* Results of the store's calls.                                           *)
(***************************************************************************)
Failure(err) == [returned |-> TRUE, success |-> FALSE, error |-> err]

Success(data) == [returned |-> TRUE, success |-> TRUE, data |-> data]

Range(f) == {f[k] : k \in DOMAIN f}

\* result.data of getAnnualReportStats for a window of `total` messages: the
\* per-session counts, and the daily counts with Monday as the peak day.
StatsOf(ids, total) ==
  IF total = 0 THEN NoStats
  ELSE [ total |-> total,
         sessions |-> [k \in Range(ids) |->
                         [sent |-> 2, received |-> 1, monthly |-> (1 :> 3)]],
         daily |-> IF total = 1
                   THEN << [day |-> DayIndex(MondayDate), count |-> 1] >>
                   ELSE << [day |-> DayIndex(MondayDate), count |-> total - 1],
                           [day |-> DayIndex(MondayDate) + 1, count |-> 1] >> ]

\* A store may also name the daily counts it answers.
StatsChoices(ids) ==
  {StatsOf(ids, total) : total \in store.totals}
  \cup (IF Has(store, "daily")
        THEN {[StatsOf(ids, 3) EXCEPT !.daily = daily] : daily \in store.daily}
        ELSE {})

\* A batch: at most MaxBatch rows, the timestamps that are present in
\* non-decreasing order and not before the last one this cursor delivered.
Ascending(rows, last) ==
  LET timed == {k \in 1 .. Len(rows) : rows[k].create_time # 0}
  IN /\ \A k \in timed : rows[k].create_time >= last
     /\ \A j, k \in timed :
          j < k => rows[j].create_time <= rows[k].create_time

RECURSIVE LastTime(_, _)
LastTime(rows, last) ==
  IF rows = <<>> THEN last
  ELSE IF Head(rows).create_time = 0 THEN LastTime(Tail(rows), last)
  ELSE LastTime(Tail(rows), Head(rows).create_time)

\* A store may also hold long batches (store.bulk); one of them may be the
\* answer to the first fetch of a run that reads rows.
Batches(last, room) ==
  {b \in UNION {[1 .. n -> store.rows] : n \in 0 .. Min(MaxBatch, room)} :
     Ascending(b, last)}
  \cup (IF Has(store, "bulk") /\ room = store.limit
        THEN {b \in store.bulk : Ascending(b, last)}
        ELSE IF room < 0 THEN {<<>>} ELSE {})

\* batch.hasMore: a cursor delivers at most MaxFetch batches.
MoreChoices(c) == IF c.fetches + 1 < MaxFetch THEN BOOLEAN ELSE {FALSE}

Logged(by, i, sid, rows) ==
  [k \in 1 .. Len(rows) |-> [by |-> by, i |-> i, sid |-> sid, row |-> rows[k]]]

\* Date.now() - lastProgressAt after a further dt milliseconds.
Later(e, dt) == Min(e + dt, ElapsedCap)

(***************************************************************************)
(* Annual report: generateReportWithConfig (lines 472-1021).               *)
(***************************************************************************)
\* String.prototype.toLowerCase on ASCII letters.
ToLower(s) == [k \in 1 .. Len(s) |-> IF s[k] \in 65 .. 90 THEN s[k] + 32 ELSE s[k]]

StrWxidPrefix == <<119, 120, 105, 100, 95>>     \* "wxid_"
Underscore == 95
AlphaNum == (48 .. 57) \cup (65 .. 90) \cup (97 .. 122)

\* The end of the longest run of characters other than '_' that starts at k.
RECURSIVE RunEnd(_, _)
RunEnd(s, k) ==
  IF k <= Len(s) /\ s[k] # Underscore THEN RunEnd(s, k + 1) ELSE k - 1

\* Lines 189-200: cleanAccountDirName.
cleanAccountDirName(dirName) ==
  LET trimmed == Trim(dirName)
      n == Len(trimmed)
  IN IF trimmed = <<>> THEN trimmed
     ELSE IF StartsWith(ToLower(trimmed), StrWxidPrefix)
       THEN \* /^(wxid_[^_]+)/i
            IF RunEnd(trimmed, 6) >= 6
            THEN SubSeq(trimmed, 1, RunEnd(trimmed, 6)) ELSE trimmed
     ELSE \* /^(.+)_([a-zA-Z0-9]{4})$/
          IF n >= 6 /\ trimmed[n - 4] = Underscore
             /\ \A k \in n - 3 .. n : trimmed[k] \in AlphaNum
          THEN SubSeq(trimmed, 1, n - 5) ELSE trimmed

\* Lines 202-215: ensureConnectedWithConfig.  dbPath and decryptKey are
\* modelled by their truthiness, ok is the answer of wcdbService.open, which
\* is called only when the three settings are present.
ensureConnectedWithConfig(dbPath, decryptKey, wxid, ok) ==
  IF wxid = <<>> THEN [success |-> FALSE, error |-> "noWxid", opened |-> FALSE]
  ELSE IF ~dbPath
    THEN [success |-> FALSE, error |-> "noDbPath", opened |-> FALSE]
  ELSE IF ~decryptKey
    THEN [success |-> FALSE, error |-> "noDecryptKey", opened |-> FALSE]
  ELSE IF ~ok
    THEN [success |-> FALSE, error |-> "openFailed", opened |-> TRUE]
  ELSE [success |-> TRUE, cleanedWxid |-> cleanAccountDirName(wxid),
        rawWxid |-> wxid, opened |-> TRUE]

\* Line 483: `!conn.success || !conn.cleanedWxid || !conn.rawWxid`.
ConnRefused(conn) ==
  ~conn.success \/ conn.cleanedWxid = <<>> \/ conn.rawWxid = <<>>

\* Line 483: `{ success: false, error: conn.error }`; conn.error is
\* undefined when the connection itself succeeded.
ConnFailure(conn) ==
  IF Has(conn, "error") THEN Failure(conn.error)
  ELSE [returned |-> TRUE, success |-> FALSE]

\* The account ids of the configuration: none, blank, a plain account id.
WxidChoices == {<<>>, <<32>>, <<119, 120, 105, 100, 95, 97>>}

\* A faulty variant of AnnualConnect: the refusal is recorded but the run
\* goes on to the session list.
AnnualConnectGoesOn ==
  /\ kind = "annual" /\ pc = "start"
  /\ progressLog' = Append(progressLog, 5)
  /\ \E wxid \in WxidChoices, dbPath, decryptKey, ok \in BOOLEAN :
       LET conn == ensureConnectedWithConfig(dbPath, decryptKey, wxid, ok)
       IN /\ api' = IF conn.opened THEN [api EXCEPT !.calls = @ \cup {"open"}]
                    ELSE api
          /\ result' = IF ConnRefused(conn) THEN ConnFailure(conn) ELSE result
          /\ pc' = "sessions"
  /\ UNCHANGED <<services, edge, other, store, kind, year, sessionIds, d, extras, acc, scan, cls, dual,
                 cursor, elapsed, posted, log>>

\* Lines 481-483 with ensureConnectedWithConfig (lines 202-215).
AnnualConnect ==
  /\ kind = "annual" /\ pc = "start"
  /\ progressLog' = Append(progressLog, 5)
  /\ \E wxid \in WxidChoices, dbPath, decryptKey, ok \in BOOLEAN :
       LET conn == ensureConnectedWithConfig(dbPath, decryptKey, wxid, ok)
       IN /\ api' = IF conn.opened THEN [api EXCEPT !.calls = @ \cup {"open"}]
                    ELSE api
          /\ IF ConnRefused(conn)
             THEN result' = ConnFailure(conn) /\ pc' = "done"
             ELSE result' = result /\ pc' = "sessions"
  /\ UNCHANGED <<services, edge, other, store, kind, year, sessionIds, d, extras, acc, scan, cls, dual,
                 cursor, elapsed, posted, log>>

\* Lines 487-519 up to the await of getAnnualReportStats.
AnnualSessions ==
  /\ kind = "annual" /\ pc = "sessions"
  /\ api' = [api EXCEPT !.calls = @ \cup {"getSessions"}]
  /\ \E n \in 0 .. MaxSessions :
       /\ sessionIds' = [k \in 1 .. n |-> k]
       /\ IF n = 0
          THEN /\ result' = Failure("noSessions") /\ pc' = "done"
               /\ progressLog' = progressLog
          ELSE /\ result' = result /\ pc' = "stats"
               /\ progressLog' = progressLog \o <<15, 20>>
  /\ UNCHANGED <<services, edge, other, store, kind, year, d, extras, acc, scan, cls, dual, cursor, elapsed,
                 posted, log>>

\* Lines 519-573 up to the await of getAnnualReportExtras.
AnnualStats ==
  /\ kind = "annual" /\ pc = "stats"
  /\ api' = BulkCall(api, "getAnnualReportStats", Window(year))
  /\ \/ /\ result' = Failure("statsFailed") /\ pc' = "done"
        /\ UNCHANGED <<d, progressLog>>
     \/ \E data \in StatsChoices(sessionIds) :
          /\ d' = data
          /\ progressLog' = progressLog \o <<25, 30>>
          /\ pc' = "extras"
          /\ result' = result
  /\ UNCHANGED <<services, edge, other, store, kind, year, sessionIds, extras, acc, scan, cls, dual, cursor,
                 elapsed, posted, log>>

\* A faulty variant of UsesExtras: a payload counts only when it carries
\* a streak, so that the full scan runs after a payload without one.
UsesExtrasWithStreak(x) == x.success /\ x.hasData /\ Has(x.data, "streak")

\* Line 573: `extras.success && extras.data`.
UsesExtras(x) == x.success /\ x.hasData

\* Lines 573-651 and 786-797: the answer of getAnnualReportExtras, and the
\* choice of what runs next: the full scan, the streak-only scan or the
\* assembly.
AnnualExtras ==
  /\ kind = "annual" /\ pc = "extras"
  /\ api' = BulkCall(api, "getAnnualReportExtras", Window(year))
  /\ \E x \in store.extras :
       /\ extras' = x
       /\ IF UsesExtras(x)
          THEN LET a == ApplyExtras(acc, x.data, PeakDayKey(d))
               IN /\ acc' = a
                  /\ IF a.streakComputedInLoop
                     THEN /\ progressLog' = progressLog \o ExtrasProgress \o <<85>>
                          /\ pc' = "contacts"
                     ELSE /\ progressLog' = progressLog \o ExtrasProgress \o <<45>>
                          /\ pc' = "clsOpen"
          ELSE /\ acc' = acc
               /\ pc' = "scanOpen"
               /\ progressLog' = IF ~x.success THEN Append(progressLog, 30)
                                 ELSE progressLog
  /\ scan' = InitScan
  /\ cls' = [InitCls EXCEPT !.lastProgressSent = 45,
                            !.shouldReportProgress = Len(sessionIds) > 0]
  /\ elapsed' = ElapsedCap
  /\ UNCHANGED <<services, edge, other, store, kind, year, sessionIds, d, dual, cursor, posted, result, log>>

\* A faulty variant of ScanNext: the loop over the sessions is left after
\* the first session.
ScanNextStopsEarly(a, sc) ==
  /\ scan' = [sc EXCEPT !.i = @ + 1]
  /\ acc' = [a EXCEPT !.streakComputedInLoop = TRUE]
  /\ pc' = "contacts"
  /\ progressLog' = Append(progressLog, 85)

\* Lines 776-784 and 797: the end of one session of the full scan; after the
\* last session the streak counts as computed and the assembly starts.
ScanNext(a, sc) ==
  /\ scan' = [sc EXCEPT !.i = @ + 1]
  /\ IF sc.i + 1 < Len(sessionIds)
     THEN /\ acc' = a /\ pc' = "scanOpen" /\ progressLog' = progressLog
     ELSE /\ acc' = [a EXCEPT !.streakComputedInLoop = TRUE]
          /\ pc' = "contacts"
          /\ progressLog' = Append(progressLog, 85)

\* Lines 651-661: openMessageCursorLite for session i.
ScanOpen ==
  /\ kind = "annual" /\ pc = "scanOpen"
  /\ LET sessionId == sessionIds[scan.i + 1]
     IN \/ /\ api' = OpenCall(api, sessionId, Window(year), FALSE)
           /\ ScanNext(acc, scan)
           /\ cursor' = cursor
        \/ /\ api' = OpenCall(api, sessionId, Window(year), TRUE)
           /\ cursor' = [sid |-> sessionId, last |-> 0, hasMore |-> TRUE,
                         fetches |-> 0, handle |-> Len(api.opened) + 1]
           /\ scan' = [scan EXCEPT !.streak = InitStreak]
           /\ pc' = "scanFetch"
           /\ UNCHANGED <<acc, progressLog>>
  /\ UNCHANGED <<services, edge, other, store, kind, year, sessionIds, d, extras, cls, dual, elapsed, posted,
                 result, log>>

\* The record of the scan-progress emissions: heard counts them, quiet is
\* the time since the last one (capped like elapsed), spaced tells whether
\* every emission so far came more than PROGRESS_INTERVAL after the one
\* before it.
Heard(a, sent, dt) ==
  [a EXCEPT !.heard = IF sent THEN @ + 1 ELSE @,
            !.quiet = IF sent THEN 0 ELSE Later(@, dt),
            !.spaced = @ /\ (sent => Later(a.quiet, dt) > PROGRESS_INTERVAL)]

\* A faulty variant of ProgressDue: progress is due after every batch.
ProgressDueEveryBatch(now) == TRUE

\* Lines 749-750 (and lines 395-396 of the dual report):
\* `now - lastProgressAt > 200`.
ProgressDue(now) == now > PROGRESS_INTERVAL

\* A faulty variant of ScanProgressValue: the ratio is not capped at 1.
ScanProgressUncapped(processed, total, i, n) ==
  IF total > 0 THEN 30 + (processed * 50) \div total
  ELSE 30 + ((i + 1) * 50) \div n

\* Lines 743-757.
ScanProgressValue(processed, total, i, n) ==
  IF total > 0 THEN 30 + (Min(processed, total) * 50) \div total
  ELSE 30 + (Min(i + 1, n) * 50) \div n

\* Lines 665-770: one batch of the full scan.
ScanFetch ==
  /\ kind = "annual" /\ pc = "scanFetch"
  /\ \/ /\ pc' = "scanClose"
        /\ api' = [api EXCEPT !.fetched = @ \cup {cursor.sid}]
        /\ UNCHANGED <<acc, scan, cursor, elapsed, progressLog, log>>
     \/ \E rows \in Batches(cursor.last, store.limit - Len(log)),
           hasMore \in MoreChoices(cursor), dt \in store.ticks :
          LET st == ProcessRows([acc |-> acc, scan |-> scan], cursor.sid,
                                rows, d, sessionIds)
              now == Later(elapsed, dt)
              progress == ScanProgressValue(st.scan.processedMessages,
                            TotalMessagesForProgress(d, sessionIds),
                            scan.i, Len(sessionIds))
              send == ProgressDue(now) /\ progress > scan.lastProgressSent
          IN /\ api' = Heard([api EXCEPT !.fetched = @ \cup {cursor.sid}],
                             send, dt)
             /\ acc' = st.acc
             /\ scan' = IF send THEN [st.scan EXCEPT !.lastProgressSent = progress]
                        ELSE st.scan
             /\ elapsed' = IF send THEN 0 ELSE now
             /\ progressLog' = IF send THEN Append(progressLog, progress)
                               ELSE progressLog
             /\ cursor' = [cursor EXCEPT !.last = LastTime(rows, @),
                                         !.hasMore = hasMore,
                                         !.fetches = @ + 1]
             /\ log' = log \o Logged("scan", scan.i, cursor.sid, rows)
             /\ pc' = "scanYield"
  /\ UNCHANGED <<services, edge, other, store, kind, year, sessionIds, d, extras, cls, dual, posted, result>>

\* Line 770: await setImmediate, then the loop test of line 665.
ScanYield ==
  /\ kind = "annual" /\ pc = "scanYield"
  /\ pc' = IF cursor.hasMore THEN "scanFetch" ELSE "scanClose"
  /\ UNCHANGED <<services, edge, other, store, kind, year, sessionIds, d, extras, acc, scan, cls, dual,
                 cursor, elapsed, progressLog, posted, result, log, api>>

\* A faulty variant of GlobalStreak: a session whose best run equals the
\* global best replaces it.
GlobalStreakKeepsLast(a, sessionId, st) ==
  IF st.maxStreak >= a.longestStreakDays
  THEN [a EXCEPT !.longestStreakDays = st.maxStreak,
                 !.longestStreakSessionId = sessionId,
                 !.longestStreakStart = st.maxStart,
                 !.longestStreakEnd = st.maxEnd]
  ELSE a

\* Lines 776-781.
GlobalStreak(a, sessionId, st) ==
  IF st.maxStreak > a.longestStreakDays
  THEN [a EXCEPT !.longestStreakDays = st.maxStreak,
                 !.longestStreakSessionId = sessionId,
                 !.longestStreakStart = st.maxStart,
                 !.longestStreakEnd = st.maxEnd]
  ELSE a

\* A faulty variant of ScanClose: after a failed fetch (the loop was left
\* with hasMore still true) the scan of the remaining sessions is given up.
ScanCloseEndsScan ==
  /\ kind = "annual" /\ pc = "scanClose"
  /\ api' = CloseCall(api, cursor)
  /\ cursor' = NoCursor
  /\ IF cursor.hasMore
     THEN ScanNextStopsEarly(GlobalStreak(acc, cursor.sid, scan.streak), scan)
     ELSE ScanNext(GlobalStreak(acc, cursor.sid, scan.streak), scan)
  /\ UNCHANGED <<services, edge, other, store, kind, year, sessionIds, d, extras, cls, dual, elapsed, posted,
                 result, log>>

\* A faulty variant of ScanClose: the cursor of the session is left open.
ScanCloseLeavesOpen ==
  /\ kind = "annual" /\ pc = "scanClose"
  /\ cursor' = NoCursor
  /\ ScanNext(GlobalStreak(acc, cursor.sid, scan.streak), scan)
  /\ UNCHANGED <<services, edge, other, store, kind, year, sessionIds, d, extras, cls, dual, elapsed, posted,
                 result, log, api>>

\* Lines 772-784: closeMessageCursor, then the global streak.
ScanClose ==
  /\ kind = "annual" /\ pc = "scanClose"
  /\ api' = CloseCall(api, cursor)
  /\ cursor' = NoCursor
  /\ ScanNext(GlobalStreak(acc, cursor.sid, scan.streak), scan)
  /\ UNCHANGED <<services, edge, other, store, kind, year, sessionIds, d, extras, cls, dual, elapsed, posted,
                 result, log>>

(***************************************************************************)
(* Annual report: computeLongestStreak (lines 331-435), called with        *)
(* progressStart = 45 and progressEnd = 75 (line 788).                     *)
(***************************************************************************)
\* A faulty variant of StreakStepLite: a run as long as the best one
\* replaces it.
StreakStepLiteKeepsLatest(st, dayDate) ==
  LET dayIndex == DayIndex(dayDate)
  IN IF st.lastDayIndex # Null /\ dayIndex = st.lastDayIndex THEN st
     ELSE LET extend == st.lastDayIndex # Null /\ dayIndex - st.lastDayIndex = 1
              cur == IF extend THEN st.currentStreak + 1 ELSE 1
              start == IF extend THEN st.currentStart ELSE dayDate
              better == cur >= st.maxStreak
          IN [ lastDayIndex |-> dayIndex,
               currentStreak |-> cur,
               currentStart |-> start,
               maxStreak |-> IF better THEN cur ELSE st.maxStreak,
               maxStart |-> IF better THEN start ELSE st.maxStart,
               maxEnd |-> IF better THEN dayDate ELSE st.maxEnd ]

\* Lines 377-396.
StreakStepLite(st, dayDate) ==
  LET dayIndex == DayIndex(dayDate)
  IN IF st.lastDayIndex # Null /\ dayIndex = st.lastDayIndex THEN st
     ELSE LET extend == st.lastDayIndex # Null /\ dayIndex - st.lastDayIndex = 1
              cur == IF extend THEN st.currentStreak + 1 ELSE 1
              start == IF extend THEN st.currentStart ELSE dayDate
              better == cur > st.maxStreak
          IN [ lastDayIndex |-> dayIndex,
               currentStreak |-> cur,
               currentStart |-> start,
               maxStreak |-> IF better THEN cur ELSE st.maxStreak,
               maxStart |-> IF better THEN start ELSE st.maxStart,
               maxEnd |-> IF better THEN dayDate ELSE st.maxEnd ]

\* Lines 373-397.
RECURSIVE StreakRows(_, _)
StreakRows(st, rows) ==
  IF rows = <<>> THEN st
  ELSE IF Len(rows) = 1
    THEN IF rows[1].create_time = 0 THEN st
         ELSE StreakStepLite(st, DayDate(DateOf(rows[1].create_time)))
  ELSE LET half == Len(rows) \div 2
           mid == StreakRows(st, SubSeq(rows, 1, half))
       IN IF mid = mid       \* the first rows are evaluated before the rest
          THEN StreakRows(mid, SubSeq(rows, half + 1, Len(rows)))
          ELSE st

\* Lines 409-414.
BestStreak(c, sessionId) ==
  IF c.streak.maxStreak > c.bestDays
  THEN [c EXCEPT !.bestDays = c.streak.maxStreak,
                 !.bestSessionId = sessionId,
                 !.bestStart = c.streak.maxStart,
                 !.bestEnd = c.streak.maxEnd]
  ELSE c

\* Lines 419-420 with progressStart = 45, progressEnd = 75.
StreakProgressValue(i, n) == 45 + (Min(i + 1, n) * (75 - 45)) \div n

\* Lines 789-794.
MergeStreak(a, c) ==
  IF c.bestDays > a.longestStreakDays
  THEN [a EXCEPT !.longestStreakDays = c.bestDays,
                 !.longestStreakSessionId = c.bestSessionId,
                 !.longestStreakStart = c.bestStart,
                 !.longestStreakEnd = c.bestEnd]
  ELSE a

\* The end of one session of computeLongestStreak; after the last session
\* the function returns, its result is merged and the assembly starts.
ClsNext(c, emitted) ==
  /\ cls' = [c EXCEPT !.i = @ + 1]
  /\ IF c.i + 1 < Len(sessionIds)
     THEN /\ acc' = acc /\ pc' = "clsOpen"
          /\ progressLog' = progressLog \o emitted
     ELSE /\ acc' = MergeStreak(acc, c)
          /\ pc' = "contacts"
          /\ progressLog' = progressLog \o emitted \o <<85>>

\* Lines 350-362.
ClsOpen ==
  /\ kind = "annual" /\ pc = "clsOpen"
  /\ LET sessionId == sessionIds[cls.i + 1]
     IN \/ /\ api' = OpenCall(api, sessionId, Window(year), FALSE)
           /\ ClsNext(cls, <<>>)
           /\ cursor' = cursor
        \/ /\ api' = OpenCall(api, sessionId, Window(year), TRUE)
           /\ cursor' = [sid |-> sessionId, last |-> 0, hasMore |-> TRUE,
                         fetches |-> 0, handle |-> Len(api.opened) + 1]
           /\ cls' = [cls EXCEPT !.streak = InitStreak]
           /\ pc' = "clsFetch"
           /\ UNCHANGED <<acc, progressLog>>
  /\ UNCHANGED <<services, edge, other, store, kind, year, sessionIds, d, extras, scan, dual, elapsed, posted,
                 result, log>>

\* Lines 366-401: one batch.
ClsFetch ==
  /\ kind = "annual" /\ pc = "clsFetch"
  /\ api' = [api EXCEPT !.fetched = @ \cup {cursor.sid}]
  /\ \/ /\ pc' = "clsClose"
        /\ UNCHANGED <<cls, cursor, elapsed, log>>
     \/ \E rows \in Batches(cursor.last, store.limit - Len(log)),
           hasMore \in MoreChoices(cursor), dt \in store.ticks :
          /\ cls' = [cls EXCEPT !.streak = StreakRows(@, rows)]
          /\ elapsed' = Later(elapsed, dt)
          /\ cursor' = [cursor EXCEPT !.last = LastTime(rows, @),
                                      !.hasMore = hasMore,
                                         !.fetches = @ + 1]
          /\ log' = log \o Logged("cls", cls.i, cursor.sid, rows)
          /\ pc' = "clsYield"
  /\ UNCHANGED <<services, edge, other, store, kind, year, sessionIds, d, extras, acc, scan, dual,
                 progressLog, posted, result>>

\* Line 401.
ClsYield ==
  /\ kind = "annual" /\ pc = "clsYield"
  /\ pc' = IF cursor.hasMore THEN "clsFetch" ELSE "clsClose"
  /\ UNCHANGED <<services, edge, other, store, kind, year, sessionIds, d, extras, acc, scan, cls, dual,
                 cursor, elapsed, progressLog, posted, result, log, api>>

\* Lines 403-432.
ClsClose ==
  /\ kind = "annual" /\ pc = "clsClose"
  /\ api' = CloseCall(api, cursor)
  /\ cursor' = NoCursor
  /\ LET c == BestStreak(cls, cursor.sid)
         progress == StreakProgressValue(cls.i, Len(sessionIds))
         send == /\ cls.shouldReportProgress
                 /\ elapsed > STREAK_PROGRESS_INTERVAL
                 /\ progress > cls.lastProgressSent
     IN /\ ClsNext(IF send THEN [c EXCEPT !.lastProgressSent = progress] ELSE c,
                   IF send THEN <<progress>> ELSE <<>>)
        /\ elapsed' = IF send THEN 0 ELSE elapsed
  /\ UNCHANGED <<services, edge, other, store, kind, year, sessionIds, d, extras, scan, dual, posted, result,
                 log>>

\* Lines 799-1017: the names arrive, the report is assembled and returned.
AnnualContacts ==
  /\ kind = "annual" /\ pc = "contacts"
  /\ api' = [api EXCEPT !.calls = @ \cup {"getDisplayNames", "getAvatarUrls"}]
  /\ progressLog' = Append(progressLog, 95)
  /\ result' = Success(AnnualReportData(acc, d, year))
  /\ pc' = "done"
  /\ UNCHANGED <<services, edge, other, store, kind, year, sessionIds, d, extras, acc, scan, cls, dual,
                 cursor, elapsed, posted, log>>

(***************************************************************************)
(* Dual report: DualReportService.generateReportWithConfig                 *)
(* (src/electron/services/dualReportService.ts, lines 236-453) run by the  *)
(* worker (src/src/types/sns.ts, lines 73-93).  The friend's session is    *)
(* session 1.  onProgress posts a 'dualReport:progress' message.           *)
(***************************************************************************)
FriendSession == 1

FIRST_LIMIT == 3

ProgressMsg(p) == [type |-> "dualReport:progress", progress |-> p]

\* reportProgress with the worker's onProgress (worker lines 80-85).
DualEmit(ps) ==
  /\ progressLog' = progressLog \o ps
  /\ posted' = posted \o [k \in 1 .. Len(ps) |-> ProgressMsg(ps[k])]

\* Lines 246-258.
DualConnect ==
  /\ kind = "dual" /\ pc = "start"
  /\ \E wxid \in WxidChoices, dbPath, decryptKey, ok \in BOOLEAN :
       LET conn == ensureConnectedWithConfig(dbPath, decryptKey, wxid, ok)
       IN /\ api' = IF conn.opened THEN [api EXCEPT !.calls = @ \cup {"open"}]
                    ELSE api
          /\ IF ConnRefused(conn)
             THEN /\ result' = ConnFailure(conn) /\ pc' = "return"
                  /\ DualEmit(<<5>>)
                  /\ dual' = dual
             ELSE /\ result' = result /\ pc' = "names"
                  /\ DualEmit(<<5, 10>>)
                  /\ dual' = [dual EXCEPT !.isAllTime = (ReportYear(year) = 0)]
  /\ UNCHANGED <<services, edge, other, store, kind, year, sessionIds, d, extras, acc, scan, cls,
                 cursor, elapsed, log>>

\* Lines 259-265: the display names (no name is stored, so each falls back
\* to the user name), then the first getFirstMessages call starts.
DualNames ==
  /\ kind = "dual" /\ pc = "names"
  /\ api' = [api EXCEPT !.calls = @ \cup {"getDisplayNames"}]
  /\ DualEmit(<<15>>)
  /\ dual' = [dual EXCEPT !.phase = "first"]
  /\ pc' = "gfOpen"
  /\ UNCHANGED <<services, edge, other, store, kind, year, sessionIds, d, extras, acc, scan, cls,
                 cursor, elapsed, result, log>>

\* Lines 266-319: getFirstMessages has returned rows.  After the all-time
\* call the year-scoped call follows unless the report is all-time; then the
\* statistics start.
GfReturn(dl, rows) ==
  IF dl.phase = "first" /\ ~dl.isAllTime
  THEN /\ dual' = [dl EXCEPT !.firstRows = rows, !.rows = <<>>,
                             !.phase = "year"]
       /\ DualEmit(<<20>>)
       /\ pc' = "gfOpen"
  ELSE /\ dual' = IF dl.phase = "first"
                  THEN [dl EXCEPT !.firstRows = rows, !.rows = <<>>]
                  ELSE [dl EXCEPT !.firstYearRows = rows, !.rows = <<>>]
       /\ DualEmit(<<30>>)
       /\ pc' = "count"

\* Lines 266 and 294: getFirstMessages is called with (0, 0) for the first
\* chat and with the window of the year for the first chat of the year.
GfWindow(dl, y) ==
  SafeWindow(IF dl.phase = "first" THEN [begin |-> 0, end |-> 0]
             ELSE Window(ReportYear(y)))

\* Lines 214-217: getFirstMessages opens its cursor.
GfOpen ==
  /\ kind = "dual" /\ pc = "gfOpen"
  /\ \/ /\ api' = OpenCall(api, FriendSession, GfWindow(dual, year), FALSE)
        /\ GfReturn(dual, <<>>)
        /\ cursor' = cursor
     \/ /\ api' = OpenCall(api, FriendSession, GfWindow(dual, year), TRUE)
        /\ cursor' = [sid |-> FriendSession, last |-> 0, hasMore |-> TRUE,
                         fetches |-> 0, handle |-> Len(api.opened) + 1]
        /\ dual' = [dual EXCEPT !.rows = <<>>]
        /\ pc' = "gfFetch"
        /\ UNCHANGED <<progressLog, posted>>
  /\ UNCHANGED <<services, edge, other, store, kind, year, sessionIds, d, extras, acc, scan, cls,
                 elapsed, result, log>>

\* Lines 224-227: rows are pushed until the limit is reached.
PushRows(rows, batch, limit) ==
  rows \o SubSeq(batch, 1, Min(Len(batch), limit - Len(rows)))

\* Lines 221-229: one batch of getFirstMessages and the loop test.
GfFetch ==
  /\ kind = "dual" /\ pc = "gfFetch"
  /\ api' = [api EXCEPT !.fetched = @ \cup {cursor.sid}]
  /\ \/ /\ pc' = "gfClose"
        /\ UNCHANGED <<dual, cursor, log>>
     \/ \E batch \in Batches(cursor.last, store.limit - Len(log)),
           hasMore \in MoreChoices(cursor) :
          LET rows == PushRows(dual.rows, batch, FIRST_LIMIT)
          IN /\ dual' = [dual EXCEPT !.rows = rows]
             /\ cursor' = [cursor EXCEPT !.last = LastTime(batch, @),
                                         !.hasMore = hasMore,
                                         !.fetches = @ + 1]
             /\ log' = log \o Logged(dual.phase, 0, cursor.sid, batch)
             /\ pc' = IF hasMore /\ Len(rows) < FIRST_LIMIT
                      THEN "gfFetch" ELSE "gfClose"
  /\ UNCHANGED <<services, edge, other, store, kind, year, sessionIds, d, extras, acc, scan, cls,
                 elapsed, progressLog, posted, result>>

\* Lines 230-233: `return rows.slice(0, limit)` through the finally block.
GfClose ==
  /\ kind = "dual" /\ pc = "gfClose"
  /\ api' = CloseCall(api, cursor)
  /\ cursor' = NoCursor
  /\ GfReturn(dual, Slice(dual.rows, FIRST_LIMIT))
  /\ UNCHANGED <<services, edge, other, store, kind, year, sessionIds, d, extras, acc, scan, cls,
                 elapsed, result, log>>

\* The message counts getMessageCount may answer; 0 also stands for a
\* failed call (lines 334-336).
CountChoices == {0, 2}

\* Lines 320-338.
DualCount ==
  /\ kind = "dual" /\ pc = "count"
  /\ api' = [api EXCEPT !.calls = @ \cup {"getMessageCount"}]
  /\ \E count \in CountChoices :
       dual' = [dual EXCEPT !.totalForProgress = count, !.processed = 0]
  /\ elapsed' = ElapsedCap
  /\ pc' = "dualOpen"
  /\ UNCHANGED <<services, edge, other, store, kind, year, sessionIds, d, extras, acc, scan, cls,
                 cursor, progressLog, posted, result, log>>

\* Lines 340-343.
DualOpen ==
  /\ kind = "dual" /\ pc = "dualOpen"
  /\ \/ /\ api' = OpenCall(api, FriendSession, Window(ReportYear(year)), FALSE)
        /\ result' = Failure("cursorFailed") /\ pc' = "return"
        /\ cursor' = cursor
     \/ /\ api' = OpenCall(api, FriendSession, Window(ReportYear(year)), TRUE)
        /\ cursor' = [sid |-> FriendSession, last |-> 0, hasMore |-> TRUE,
                         fetches |-> 0, handle |-> Len(api.opened) + 1]
        /\ pc' = "dualFetch"
        /\ result' = result
  /\ UNCHANGED <<services, edge, other, store, kind, year, sessionIds, d, extras, acc, scan, cls, dual,
                 elapsed, progressLog, posted, log>>

\* text.replace(/\s+/g, ''): the text without its white space.
RECURSIVE StripSpaces(_)
StripSpaces(s) ==
  IF s = <<>> THEN <<>>
  ELSE IF Head(s) \in WhiteSpace THEN StripSpaces(Tail(s))
  ELSE <<Head(s)>> \o StripSpaces(Tail(s))

\* text.replace(/\s+/g, ' '): every run of white space becomes one space.
RECURSIVE CollapseSpaces(_)
CollapseSpaces(s) ==
  IF s = <<>> THEN <<>>
  ELSE IF Head(s) \in WhiteSpace
    THEN <<32>> \o CollapseSpaces(TrimLeft(s))
  ELSE <<Head(s)>> \o CollapseSpaces(Tail(s))

\* Lines 377-382.
DualPhraseEligible(normalized) ==
  /\ Len(normalized) >= 2 /\ Len(normalized) <= 50
  /\ ~Includes(normalized, StrHttp) /\ ~Includes(normalized, StrLt)
  /\ ~StartsWith(normalized, StrBracket) /\ ~StartsWith(normalized, StrXml)

\* Lines 371-386.
DualTextStep(dl, row) ==
  LET text == Trim(decodeMessageContent(row.message_content,
                                        row.compress_content))
      normalized == Trim(CollapseSpaces(text))
  IN IF Len(text) > 0
     THEN [dl EXCEPT
            !.stats.totalWords = @ + Len(StripSpaces(text)),
            !.wordCountMap = IF DualPhraseEligible(normalized)
                             THEN PhraseAdd(@, normalized) ELSE @]
     ELSE dl

\* Lines 348-391: one row of the dual scan.  The emoji md5 and url tables
\* (lines 357-368) are filled from rows of type 47 only.
DualRow(dl, row) ==
  LET localType == row.local_type
      d1 == [dl EXCEPT
               !.stats.totalMessages = @ + 1,
               !.stats.imageCount = IF localType = 3 THEN @ + 1 ELSE @,
               !.stats.voiceCount = IF localType = 34 THEN @ + 1 ELSE @,
               !.stats.emojiCount = IF localType = 47 THEN @ + 1 ELSE @]
      d2 == IF localType = LOCAL_TYPE_TEXT \/ localType = LOCAL_TYPE_TEXT_EXT
            THEN DualTextStep(d1, row) ELSE d1
  IN [d2 EXCEPT !.processed = IF dl.totalForProgress > 0 THEN @ + 1 ELSE @]

RECURSIVE DualRows(_, _)
DualRows(dl, rows) ==
  IF rows = <<>> THEN dl
  ELSE IF Len(rows) = 1 THEN DualRow(dl, rows[1])
  ELSE LET half == Len(rows) \div 2
           mid == DualRows(dl, SubSeq(rows, 1, half))
       IN IF mid = mid       \* the first rows are evaluated before the rest
          THEN DualRows(mid, SubSeq(rows, half + 1, Len(rows)))
          ELSE dl

\* Lines 397-399.
DualProgressValue(processed, total) == 30 + (Min(processed, total) * 50) \div total

\* Lines 345-404: one batch of the dual scan and the loop test.
DualFetch ==
  /\ kind = "dual" /\ pc = "dualFetch"
  /\ \/ /\ pc' = "dualClose"
        /\ api' = [api EXCEPT !.fetched = @ \cup {cursor.sid}]
        /\ UNCHANGED <<dual, cursor, elapsed, progressLog, posted, log>>
     \/ \E rows \in Batches(cursor.last, store.limit - Len(log)),
           hasMore \in MoreChoices(cursor), dt \in store.ticks :
          LET dl == DualRows(dual, rows)
              now == Later(elapsed, dt)
              due == ProgressDue(now)
          IN /\ api' = Heard([api EXCEPT !.fetched = @ \cup {cursor.sid}],
                             due /\ dl.totalForProgress > 0, dt)
             /\ dual' = dl
             /\ elapsed' = IF due THEN 0 ELSE now
             /\ DualEmit(IF due /\ dl.totalForProgress > 0
                         THEN <<DualProgressValue(dl.processed,
                                                  dl.totalForProgress)>>
                         ELSE <<>>)
             /\ cursor' = [cursor EXCEPT !.last = LastTime(rows, @),
                                         !.hasMore = hasMore,
                                         !.fetches = @ + 1]
             /\ log' = log \o Logged("dual", 0, cursor.sid, rows)
             /\ pc' = IF hasMore THEN "dualFetch" ELSE "dualClose"
  /\ UNCHANGED <<services, edge, other, store, kind, year, sessionIds, d, extras, acc, scan, cls,
                 result>>

\* Lines 267-289 and 294-302: a message of the report.
DualMessage(row) ==
  [ content |-> decodeMessageContent(row.message_content, row.compress_content),
    isSentByMe |-> row.is_send,
    createTime |-> row.create_time * 1000 ]

\* A faulty variant of FirstChatField: the last of the first messages is
\* taken.
FirstChatFieldLatest(firstRows) ==
  IF Len(firstRows) > 0
  THEN [null |-> FALSE, chat |-> DualMessage(firstRows[Len(firstRows)])]
  ELSE NullField

\* Lines 267-278.
FirstChatField(firstRows) ==
  IF Len(firstRows) > 0
  THEN [null |-> FALSE, chat |-> DualMessage(firstRows[1])]
  ELSE NullField

\* Lines 291-317.
YearFirstChatField(dl) ==
  IF ~dl.isAllTime /\ Len(dl.firstYearRows) > 0
  THEN [ null |-> FALSE, chat |-> DualMessage(dl.firstYearRows[1]),
         firstThreeMessages |->
           [k \in 1 .. Len(dl.firstYearRows) |-> DualMessage(dl.firstYearRows[k])] ]
  ELSE NullField

\* Lines 430-446.
DualReportData(dl, y) ==
  [ year |-> ReportYear(y),
    firstChat |-> FirstChatField(dl.firstRows),
    firstChatMessages |->
      [k \in 1 .. Len(dl.firstRows) |-> DualMessage(dl.firstRows[k])],
    yearFirstChat |-> YearFirstChatField(dl),
    stats |-> dl.stats,
    topPhrases |-> Slice(SortDesc(SelectSeq(dl.wordCountMap, AtLeastTwo)), 50) ]

\* Lines 405-449: the cursor is closed and the report returned.
DualClose ==
  /\ kind = "dual" /\ pc = "dualClose"
  /\ api' = CloseCall(api, cursor)
  /\ cursor' = NoCursor
  /\ DualEmit(<<85, 100>>)
  /\ result' = Success(DualReportData(dual, year))
  /\ pc' = "return"
  /\ UNCHANGED <<services, edge, other, store, kind, year, sessionIds, d, extras, acc, scan, cls, dual,
                 elapsed, log>>

\* Worker line 88: the result is posted to the parent.
WorkerPost ==
  /\ kind = "dual" /\ pc = "return"
  /\ posted' = Append(posted, [type |-> "dualReport:result",
                               success |-> result.success])
  /\ pc' = "done"
  /\ UNCHANGED <<services, edge, other, store, kind, year, sessionIds, d, extras, acc, scan, cls, dual,
                 cursor, elapsed, progressLog, result, log, api>>

(***************************************************************************)
(* What the store holds.  Each specification starts from one of these: the  *)
(* rows a cursor may deliver and how many the window holds, the             *)
(* milliseconds one fetch may take, and the answers getAnnualReportStats    *)
(* and getAnnualReportExtras may give.                                      *)
(***************************************************************************)
\* Every answer of every call, over a few rows.
PathsStore ==
  [ rows |-> RowsOf({0, T0}, {TRUE}, {LOCAL_TYPE_TEXT}, {TextOk}),
    limit |-> MaxRows,
    ticks |-> {0, Tick},
    totals |-> {0, 3},
    extras |-> ExtrasResults ]

\* Rows on days in a row and on days apart, and two rows on one day.
StreakStore ==
  [ rows |-> RowsOf({T0, T1, TTue, TWed, TFri}, {TRUE}, {LOCAL_TYPE_TEXT},
                    {TextOk}),
    limit |-> MaxRows,
    ticks |-> {ElapsedCap},
    totals |-> {1},
    extras |-> {ExtrasFailed, ExtrasWith(EmptyPayload)} ]

\* Rows of both senders, 3600 s, 3601 s and 7201 s apart.
ConversationStore ==
  [ rows |-> RowsOf({T0, T1, T2}, BOOLEAN, {LOCAL_TYPE_TEXT},
                    {TextOk}),
    limit |-> MaxRows - 1,
    ticks |-> {ElapsedCap},
    totals |-> {1},
    extras |-> {ExtrasFailed} ]

\* params.year: all time, or one calendar year.
Years == {0, 2023}

\* Rows on two days, at two hours, and rows without a timestamp.
HeatmapStore ==
  [ rows |-> RowsOf({0, T0, TTue}, {TRUE}, {LOCAL_TYPE_TEXT}, {TextOk}),
    limit |-> MaxRows,
    ticks |-> {ElapsedCap},
    totals |-> {1},
    extras |-> {ExtrasFailed} ]

\* Rows of both senders 500 s apart, and in the same second.
ResponseStore ==
  [ rows |-> RowsOf({TEarly, T0, TLate}, BOOLEAN, {LOCAL_TYPE_TEXT}, {TextOk}),
    limit |-> MaxRows - 1,
    ticks |-> {ElapsedCap},
    totals |-> {1},
    extras |-> {ExtrasFailed} ]

\* Self-sent text rows at the limits of the phrase filters.
PhraseStore ==
  [ rows |-> RowsOf({T0}, {TRUE}, {LOCAL_TYPE_TEXT},
                    {TextOk, TextGt, TextTag, TextUrl, TextBracket, TextShort,
                     TextPadded, TextSpaced, Text20, Text21, Text50, Text51}),
    limit |-> MaxBatch,
    ticks |-> {ElapsedCap},
    totals |-> {1},
    extras |-> {ExtrasFailed} ]

\* Rows of both senders: texts of the two text types, and images; and a
\* self-sent text without a timestamp.
TypeStore ==
  [ rows |-> RowsOf({T0}, BOOLEAN,
                    {LOCAL_TYPE_TEXT, LOCAL_TYPE_TEXT_EXT, 3}, {TextOk})
             \cup RowsOf({0}, {TRUE}, {LOCAL_TYPE_TEXT}, {TextOk}),
    limit |-> MaxBatch + 1,
    ticks |-> {ElapsedCap},
    totals |-> {1},
    extras |-> {ExtrasFailed} ]

\* Two texts, often enough for two phrases of different counts; and long
\* batches of 31, 34 and 51 phrases, the last of them seen three times.
RankStore ==
  [ rows |-> RowsOf({T0}, {TRUE}, {LOCAL_TYPE_TEXT}, {TextOk, TextGt}),
    limit |-> MaxRows + 1,
    ticks |-> {ElapsedCap},
    totals |-> {1},
    extras |-> {ExtrasFailed, ExtrasWith(UnrankedPayload)},
    bulk |-> {BulkBatch(30), BulkBatch(33), BulkBatch(50)} ]

\* Rows in the first hour of the day, one second before six and at six.
MidnightStore ==
  [ rows |-> RowsOf({T0, TBeforeSix, TSix}, {TRUE}, {LOCAL_TYPE_TEXT},
                    {TextOk}),
    limit |-> MaxRows - 1,
    ticks |-> {ElapsedCap},
    totals |-> {1},
    extras |-> {ExtrasFailed} ]

\* Rows of both senders on two days; the extras call fails or gives a
\* payload without a streak, so that one of the two scans runs.
FailureStore ==
  [ rows |-> RowsOf({T0, TTue}, BOOLEAN, {LOCAL_TYPE_TEXT}, {TextOk}),
    limit |-> MaxRows - 1,
    ticks |-> {ElapsedCap},
    totals |-> {1},
    extras |-> {ExtrasFailed, ExtrasWith(EmptyPayload)} ]

\* Rows on a Monday and on the Tuesday after it, and daily counts whose
\* highest comes second, twice, never, or not at all.
PeakStore ==
  [ rows |-> RowsOf({0, T0, TTue}, {TRUE}, {LOCAL_TYPE_TEXT}, {TextOk}),
    limit |-> MaxBatch + 1,
    ticks |-> {ElapsedCap},
    totals |-> {},
    daily |-> { << [day |-> DayIndex(MondayDate), count |-> 1],
                   [day |-> DayIndex(MondayDate) + 1, count |-> 2] >>,
                << [day |-> DayIndex(MondayDate), count |-> 2],
                   [day |-> DayIndex(MondayDate) + 1, count |-> 2] >>,
                << [day |-> DayIndex(MondayDate) + 1, count |-> 0] >>,
                << >> },
    extras |-> {ExtrasFailed, ExtrasWith(FullPayload)} ]

\* Contents in hex, in base64 and in plain text.
DecodeStore ==
  [ rows |-> RowsOf({T0}, {TRUE}, {LOCAL_TYPE_TEXT},
                    {TextHexOfAbcd, TextHexOfOk, TextBase64OfHi, TextHi,
                     TextGood}),
    limit |-> MaxBatch,
    ticks |-> {ElapsedCap},
    totals |-> {1},
    extras |-> {ExtrasFailed} ]

\* Rows with both content fields: the fallback field empty, a frame that
\* does not decompress, or a frame of "ok"; the primary field a plain text
\* or a frame that does not decompress.
FallbackStore ==
  [ rows |-> [create_time : {T0}, is_send : {TRUE},
              local_type : {LOCAL_TYPE_TEXT},
              message_content : {TextHi, TextZstdBad},
              compress_content : {<<>>, TextZstdBad, TextZstdOk}],
    limit |-> MaxBatch,
    ticks |-> {ElapsedCap},
    totals |-> {1},
    extras |-> {ExtrasFailed} ]

\* Rows at three moments, enough of them for a first-messages cursor that
\* holds more than three.
FirstStore ==
  [ rows |-> RowsOf({T0, T1, T2}, {TRUE}, {LOCAL_TYPE_TEXT}, {TextOk}),
    limit |-> MaxBatch + 2,
    ticks |-> {ElapsedCap},
    totals |-> {1},
    extras |-> {ExtrasFailed} ]

\* Timestamps of 2023 and of 2025.
T2023 == DaysBeforeYear(2023) * 86400 + 1000
T2025 == DaysBeforeYear(2025) * 86400 + 1000

\* A store that may also deliver batches holding something that is no row.
CursorStore ==
  [ rows |-> RowsOf({0, T0}, {TRUE}, {LOCAL_TYPE_TEXT}, {TextOk}),
    limit |-> MaxBatch,
    ticks |-> {ElapsedCap},
    totals |-> {1},
    extras |-> {ExtrasFailed, ExtrasWith(EmptyPayload)},
    malformed |-> TRUE ]

\* The same with rows of two years and a row without a timestamp, for
\* getAvailableYears.
EdgeStore ==
  [CursorStore EXCEPT
     !.rows = RowsOf({0, T2023, T2025}, {TRUE}, {LOCAL_TYPE_TEXT}, {TextOk})]

\* One row, for two invocations that run at the same time.
TwiceStore ==
  [ rows |-> RowsOf({T0}, {TRUE}, {LOCAL_TYPE_TEXT}, {TextOk}),
    limit |-> MaxBatch - 1,
    ticks |-> {ElapsedCap},
    totals |-> {1},
    extras |-> {ExtrasFailed} ]

\* A few rows, for requests of a year, of all time and of a negative year.
YearStore ==
  [ rows |-> RowsOf({T0, TTue}, {TRUE}, {LOCAL_TYPE_TEXT}, {TextOk}),
    limit |-> MaxBatch,
    ticks |-> {ElapsedCap},
    totals |-> {3},
    extras |-> {ExtrasFailed, ExtrasWith(FullPayload), ExtrasWith(EmptyPayload)} ]

YearChoices == {-1, 0, 2023}

\* No second invocation.
NoOther == [pc |-> "none"]

\* Lines 479-531 (dual report: lines 245-338): what one invocation of
\* generateReportWithConfig declares; every accumulator is a local of the
\* invocation, the service object has no field.
FreshLocals ==
  [ pc |-> "start", sessionIds |-> <<>>, d |-> NoStats, extras |-> NoExtras,
    acc |-> InitAcc, scan |-> InitScan, cls |-> InitCls, dual |-> InitDual,
    cursor |-> NoCursor, elapsed |-> ElapsedCap, progressLog |-> <<>>,
    posted |-> <<>>, result |-> NoResult, log |-> <<>>, api |-> InitApi ]

\* The locals of the running invocation.
Locals ==
  [ pc |-> pc, sessionIds |-> sessionIds, d |-> d, extras |-> extras,
    acc |-> acc, scan |-> scan, cls |-> cls, dual |-> dual,
    cursor |-> cursor, elapsed |-> elapsed, progressLog |-> progressLog,
    posted |-> posted, result |-> result, log |-> log, api |-> api ]

\* A faulty variant of Install: the accumulators belong to the service
\* object, so the invocation that resumes finds them as the other left them.
InstallSharedAccumulators(f) ==
  /\ pc' = f.pc /\ sessionIds' = f.sessionIds /\ d' = f.d
  /\ extras' = f.extras /\ acc' = acc /\ scan' = f.scan /\ cls' = f.cls
  /\ dual' = [f.dual EXCEPT !.stats = dual.stats,
                            !.wordCountMap = dual.wordCountMap]
  /\ cursor' = f.cursor /\ elapsed' = f.elapsed
  /\ progressLog' = f.progressLog /\ posted' = f.posted
  /\ result' = f.result /\ log' = f.log /\ api' = f.api

\* An invocation continues with its own locals.
Install(f) ==
  /\ pc' = f.pc /\ sessionIds' = f.sessionIds /\ d' = f.d
  /\ extras' = f.extras /\ acc' = f.acc /\ scan' = f.scan /\ cls' = f.cls
  /\ dual' = f.dual /\ cursor' = f.cursor /\ elapsed' = f.elapsed
  /\ progressLog' = f.progressLog /\ posted' = f.posted
  /\ result' = f.result /\ log' = f.log /\ api' = f.api

(***************************************************************************)
(* Row processing that throws.  A batch may hold something that is no row  *)
(* (a store with the field malformed delivers such batches): reading a     *)
(* field of it throws inside the try block, the finally block closes the   *)
(* cursor and the catch of generateReportWithConfig returns the failure.   *)
(***************************************************************************)
\* A faulty variant of AnnualThrow: the exception leaves the loop without
\* the finally block.
AnnualThrowLeavesOpen ==
  /\ kind = "annual" /\ pc \in {"scanFetch", "clsFetch"}
  /\ Has(store, "malformed")
  /\ api' = [api EXCEPT !.fetched = @ \cup {cursor.sid}]
  /\ cursor' = NoCursor
  /\ result' = Failure("thrown")
  /\ pc' = "done"
  /\ UNCHANGED <<services, edge, other, store, kind, year, sessionIds, d, extras, acc, scan, cls,
                 dual, elapsed, progressLog, posted, log>>

\* Annual report, lines 663-774 and 360-407 (try / finally) with the catch
\* of lines 1019-1021.
AnnualThrow ==
  /\ kind = "annual" /\ pc \in {"scanFetch", "clsFetch"}
  /\ Has(store, "malformed")
  /\ api' = CloseCall([api EXCEPT !.fetched = @ \cup {cursor.sid}], cursor)
  /\ cursor' = NoCursor
  /\ result' = Failure("thrown")
  /\ pc' = "done"
  /\ UNCHANGED <<services, edge, other, store, kind, year, sessionIds, d, extras, acc, scan, cls,
                 dual, elapsed, progressLog, posted, log>>

\* Dual report, lines 218-233 and 345-407 (try / finally) with the catch of
\* lines 450-452; the worker then posts the result.
DualThrow ==
  /\ kind = "dual" /\ pc \in {"gfFetch", "dualFetch"}
  /\ Has(store, "malformed")
  /\ api' = CloseCall([api EXCEPT !.fetched = @ \cup {cursor.sid}], cursor)
  /\ cursor' = NoCursor
  /\ result' = Failure("thrown")
  /\ pc' = "return"
  /\ UNCHANGED <<services, edge, other, store, kind, year, sessionIds, d, extras, acc, scan, cls,
                 dual, elapsed, progressLog, posted, log>>

(***************************************************************************)
(* getAvailableYears (lines 436-471) with getEdgeMessageTime (lines        *)
(* 250-261).  edge holds the session index i, the direction of the call in *)
(* progress, the result of the ascending call, the value the call in       *)
(* progress is about to return and the years found so far.                 *)
(***************************************************************************)
\* Date.getFullYear of a time in seconds.
YearOfSeconds(ts) ==
  CHOOSE y \in 1970 .. 2037 :
    DaysBeforeYear(y) * 86400 <= ts /\ ts < DaysBeforeYear(y + 1) * 86400

CurrentYear == YearOfSeconds(NowSeconds)

\* Lines 456-462: the years between the first and the last message of a
\* session that are within 2010 and the current year.
YearsOfSession(first, last) ==
  IF first = Null /\ last = Null THEN {}
  ELSE LET minYear == YearOfSeconds(IF first # Null THEN first ELSE last)
           maxYear == YearOfSeconds(IF last # Null THEN last ELSE first)
       IN {y \in minYear .. maxYear : y >= 2010 /\ y <= CurrentYear}

\* Line 465: the years in descending order.
RECURSIVE DescendingYears(_)
DescendingYears(S) ==
  IF S = {} THEN <<>>
  ELSE LET m == CHOOSE y \in S : \A z \in S : z <= y
       IN <<m>> \o DescendingYears(S \ {m})

\* The years the bulk query of the store may answer.
FastYears == <<2023>>

\* Lines 437-452: the connection, the private sessions and the bulk query.
YearsStart ==
  /\ kind = "years" /\ pc = "start"
  /\ \E wxid \in WxidChoices, dbPath, decryptKey, ok, fast \in BOOLEAN,
        n \in 0 .. MaxSessions :
       LET conn == ensureConnectedWithConfig(dbPath, decryptKey, wxid, ok)
       IN IF ~conn.success \/ conn.cleanedWxid = <<>>
          THEN /\ api' = IF conn.opened
                         THEN [api EXCEPT !.calls = @ \cup {"open"}] ELSE api
               /\ result' = ConnFailure(conn) /\ pc' = "done"
               /\ UNCHANGED <<sessionIds, edge>>
          ELSE IF n = 0
          THEN /\ api' = [api EXCEPT !.calls = @ \cup {"open", "getSessions"}]
               /\ sessionIds' = <<>>
               /\ result' = Failure("noSessions") /\ pc' = "done"
               /\ edge' = edge
          ELSE /\ api' = [api EXCEPT !.calls = @ \cup {"open", "getSessions",
                                                       "getAvailableYears"}]
               /\ sessionIds' = [k \in 1 .. n |-> k]
               /\ IF fast
                  THEN /\ result' = Success(FastYears) /\ pc' = "done"
                       /\ edge' = edge
                  ELSE /\ result' = result /\ pc' = "edgeOpen"
                       /\ edge' = [i |-> 0, ascending |-> TRUE, first |-> Null,
                                   value |-> Null, thrown |-> FALSE,
                                   years |-> {}]
  /\ UNCHANGED <<services, other, store, kind, year, d, extras, acc, scan, cls, dual, cursor,
                 elapsed, progressLog, posted, log>>

\* Lines 453-466: getEdgeMessageTime has returned value.  After the
\* ascending call the descending one follows; after that the years of the
\* session are added and the next session, or the return, follows.
EdgeReturn(e, value) ==
  IF e.ascending
  THEN /\ edge' = [e EXCEPT !.first = value, !.ascending = FALSE,
                            !.value = Null]
       /\ pc' = "edgeOpen" /\ result' = result
  ELSE LET years == e.years \cup YearsOfSession(e.first, value)
       IN /\ edge' = [e EXCEPT !.i = @ + 1, !.ascending = TRUE,
                               !.first = Null, !.value = Null,
                               !.years = years]
          /\ IF e.i + 1 < Len(sessionIds)
             THEN pc' = "edgeOpen" /\ result' = result
             ELSE pc' = "done" /\ result' = Success(DescendingYears(years))

\* Lines 251-252: the cursor of one row, over all time.
EdgeOpen ==
  /\ kind = "years" /\ pc = "edgeOpen"
  /\ LET sessionId == sessionIds[edge.i + 1]
         window == [begin |-> 0, end |-> 0]
     IN \/ /\ api' = OpenCall(api, sessionId, window, FALSE)
           /\ EdgeReturn(edge, Null)
           /\ cursor' = cursor
        \/ /\ api' = OpenCall(api, sessionId, window, TRUE)
           /\ cursor' = [sid |-> sessionId, last |-> 0, hasMore |-> TRUE,
                         fetches |-> 0, handle |-> Len(api.opened) + 1]
           /\ pc' = "edgeFetch"
           /\ UNCHANGED <<edge, result>>
  /\ UNCHANGED <<services, other, store, kind, year, sessionIds, d, extras, acc, scan, cls, dual,
                 elapsed, progressLog, posted, log>>

\* Lines 254-257: the one batch; a failed fetch and an empty batch give
\* null, a row gives its time when that is above 0; a batch whose first
\* element is no row makes the read of create_time throw.
EdgeFetch ==
  /\ kind = "years" /\ pc = "edgeFetch"
  /\ api' = [api EXCEPT !.fetched = @ \cup {cursor.sid}]
  /\ \/ edge' = [edge EXCEPT !.value = Null] /\ log' = log
     \/ \E row \in store.rows :
          /\ edge' = [edge EXCEPT !.value = IF row.create_time > 0
                                            THEN row.create_time ELSE Null]
          /\ log' = log \o Logged("edge", edge.i, cursor.sid, <<row>>)
     \/ /\ Has(store, "malformed")
        /\ edge' = [edge EXCEPT !.thrown = TRUE] /\ log' = log
  /\ cursor' = [cursor EXCEPT !.fetches = @ + 1]
  /\ pc' = "edgeClose"
  /\ UNCHANGED <<services, other, store, kind, year, sessionIds, d, extras, acc, scan, cls, dual,
                 elapsed, progressLog, posted, result>>

\* Lines 258-260: the finally block, then the return of the value, or the
\* exception on its way to the catch of lines 468-470.
EdgeClose ==
  /\ kind = "years" /\ pc = "edgeClose"
  /\ api' = CloseCall(api, cursor)
  /\ cursor' = NoCursor
  /\ IF edge.thrown
     THEN /\ result' = Failure("thrown") /\ pc' = "done" /\ edge' = edge
     ELSE EdgeReturn(edge, edge.value)
  /\ UNCHANGED <<services, other, store, kind, year, sessionIds, d, extras, acc, scan, cls, dual,
                 elapsed, progressLog, posted, log>>

NextThrow == AnnualThrow \/ DualThrow

NextYears == YearsStart \/ EdgeOpen \/ EdgeFetch \/ EdgeClose

\* Two calls of generateReportWithConfig on the same service object: at an
\* await of the running invocation, or after its return, the scheduler
\* lets the other invocation run.
Resume ==
  /\ other.pc # "none"
  /\ Install(other)
  /\ other' = Locals
  /\ UNCHANGED <<services, store, kind, year, edge>>

InitRun(st, kinds, years) ==
  /\ store = st
  /\ kind \in kinds
  /\ year \in years
  /\ pc = "start"
  /\ sessionIds = <<>>
  /\ d = NoStats
  /\ extras = NoExtras
  /\ acc = InitAcc
  /\ scan = InitScan
  /\ cls = InitCls
  /\ dual = InitDual
  /\ cursor = NoCursor
  /\ elapsed = ElapsedCap
  /\ progressLog = <<>>
  /\ posted = <<>>
  /\ result = NoResult
  /\ log = <<>>
  /\ api = InitApi
  /\ edge = NoEdge

\* The other services are at rest.
IdleServices ==
  /\ voice = NoVoice /\ transcribe = NoTranscribe
  /\ timeline = NoTimeline /\ ranges = NoRanges

InitWith(st, kinds, years) ==
  InitRun(st, kinds, years) /\ other = NoOther /\ IdleServices

NextScan ==
  \/ AnnualConnect \/ AnnualSessions \/ AnnualStats \/ AnnualExtras
  \/ ScanOpen \/ ScanFetch \/ ScanYield \/ ScanClose
  \/ AnnualContacts

NextStreak ==
  \/ ClsOpen \/ ClsFetch \/ ClsYield \/ ClsClose

NextAnnual == NextScan \/ NextStreak

NextDual ==
  \/ DualConnect \/ DualNames \/ GfOpen \/ GfFetch \/ GfClose
  \/ DualCount \/ DualOpen \/ DualFetch \/ DualClose \/ WorkerPost

Init ==
  \/ InitWith(PathsStore, {"annual"}, {2023})
  \/ InitWith(PathsStore, {"dual"}, Years)

Next == NextAnnual \/ NextDual

Spec == Init /\ [][Next]_vars

\* Every answer of getAnnualReportExtras, over windows of one batch.
ExtrasStore ==
  [PathsStore EXCEPT !.limit = MaxBatch, !.ticks = {ElapsedCap}, !.totals = {3}]

ExtrasInit == InitWith(ExtrasStore, {"annual"}, {2023})

SpecExtras == ExtrasInit /\ [][NextAnnual]_vars

PeakInit == InitWith(PeakStore, {"annual"}, {2023})

SpecPeak == PeakInit /\ [][NextScan]_vars

DecodeInit == InitWith(DecodeStore, {"dual"}, {2023})

SpecDecode == DecodeInit /\ [][NextDual]_vars

TwiceInit ==
  InitRun(TwiceStore, {"annual", "dual"}, {2023}) /\ other = FreshLocals /\ IdleServices

NextTwice == NextScan \/ NextDual \/ Resume

SpecTwice == TwiceInit /\ [][NextTwice]_vars

YearInit == InitWith(YearStore, {"annual", "dual"}, YearChoices)

SpecYear == YearInit /\ [][Next]_vars

StreakInit == InitWith(StreakStore, {"annual"}, {2023})

SpecStreak == StreakInit /\ [][NextAnnual]_vars

ConversationInit == InitWith(ConversationStore, {"annual"}, {2023})

SpecConversation == ConversationInit /\ [][NextScan]_vars

HeatmapInit == InitWith(HeatmapStore, {"annual"}, {2023})

SpecHeatmap == HeatmapInit /\ [][NextScan]_vars

ResponseInit == InitWith(ResponseStore, {"annual"}, {2023})

SpecResponse == ResponseInit /\ [][NextScan]_vars

PhraseInit == InitWith(PhraseStore, {"annual", "dual"}, {2023})

NextPhrase == NextScan \/ NextDual

SpecPhrase == PhraseInit /\ [][NextPhrase]_vars

FallbackInit == InitWith(FallbackStore, {"annual", "dual"}, {2023})

SpecFallback == FallbackInit /\ [][NextPhrase]_vars

FirstInit == InitWith(FirstStore, {"dual"}, Years)

SpecFirst == FirstInit /\ [][NextDual]_vars

CursorInit ==
  \/ InitWith(CursorStore, {"annual", "dual"}, {2023})
  \/ InitWith(EdgeStore, {"years"}, {2023})

NextCursor == Next \/ NextThrow \/ NextYears

SpecCursor == CursorInit /\ [][NextCursor]_vars

TypeInit == InitWith(TypeStore, {"annual", "dual"}, {2023})

SpecType == TypeInit /\ [][NextPhrase]_vars

MidnightInit == InitWith(MidnightStore, {"annual"}, {2023})

SpecMidnight == MidnightInit /\ [][NextScan]_vars

FailureInit == InitWith(FailureStore, {"annual"}, {2023})

SpecFailure == FailureInit /\ [][NextAnnual]_vars

RankInit == InitWith(RankStore, {"annual", "dual"}, {2023})

SpecRank == RankInit /\ [][Next]_vars

(***************************************************************************)
(* Reference quantities, read off the rows the cursors have delivered.     *)
(***************************************************************************)
ScanPcs == {"scanOpen", "scanFetch", "scanYield", "scanClose"}

StreakPcs == {"clsOpen", "clsFetch", "clsYield", "clsClose"}

\* The rows with a timestamp that scan `by` has read from its i-th session.
RECURSIVE TimedRows(_, _, _)
TimedRows(l, by, i) ==
  IF l = <<>> THEN <<>>
  ELSE IF Head(l).by = by /\ Head(l).i = i /\ Head(l).row.create_time # 0
    THEN <<Head(l).row>> \o TimedRows(Tail(l), by, i)
  ELSE TimedRows(Tail(l), by, i)

DayNumber(t) == t \div 86400

DaysOf(rows) == {DayNumber(rows[k].create_time) : k \in 1 .. Len(rows)}

\* The maximal runs of consecutive days of a set of days, as <<first, last>>.
Runs(D) ==
  {r \in D \X D : /\ r[1] <= r[2]
                  /\ \A x \in r[1] .. r[2] : x \in D
                  /\ (r[1] - 1) \notin D
                  /\ (r[2] + 1) \notin D}

RunLen(r) == r[2] - r[1] + 1

\* The earliest of the longest runs.
EarliestLongest(D) ==
  CHOOSE r \in Runs(D) :
    \A q \in Runs(D) :
      RunLen(q) < RunLen(r) \/ (RunLen(q) = RunLen(r) /\ r[1] <= q[1])

LongestRunLen(D) == IF D = {} THEN 0 ELSE RunLen(EarliestLongest(D))

\* The run that ends at the latest day.
LastRun(D) == CHOOSE r \in Runs(D) : \A x \in D : x <= r[2]

MidnightOf(day) == day * 86400 * 1000

\* The streak variables a session must hold after rows on the days D.
StreakMatches(st, D) ==
  IF D = {} THEN st = InitStreak
  ELSE /\ st.maxStreak = LongestRunLen(D)
       /\ st.maxStart = MidnightOf(EarliestLongest(D)[1])
       /\ st.maxEnd = MidnightOf(EarliestLongest(D)[2])
       /\ (st.maxEnd - st.maxStart) \div DAY_MS + 1 = st.maxStreak
       /\ st.currentStreak = RunLen(LastRun(D))
       /\ st.currentStart = MidnightOf(LastRun(D)[1])
       /\ st.lastDayIndex = LastRun(D)[2]

ExtrasGavePayload == extras.called /\ extras.success /\ extras.hasData

\* The scan that read the rows of this run: the streak-only scan after a
\* payload, the full scan otherwise.
ScanBy == IF ExtrasGavePayload THEN "cls" ELSE "scan"

SessionDays(i) == DaysOf(TimedRows(log, ScanBy, i))

ScannedAll == pc = "contacts" \/ (pc = "done" /\ result.success)

\* The first session, in scan order, whose best run is the longest of all.
Winner ==
  CHOOSE i \in 0 .. Len(sessionIds) - 1 :
    \A j \in 0 .. Len(sessionIds) - 1 :
      \/ LongestRunLen(SessionDays(j)) < LongestRunLen(SessionDays(i))
      \/ (LongestRunLen(SessionDays(j)) = LongestRunLen(SessionDays(i)) /\ i <= j)

(***************************************************************************)
(* C1.  When getAnnualReportExtras answers success = false, the full scan  *)
(* runs: every session of the list gets its cursor opened, in order, and   *)
(* the report call returns success; the failure of the extras call is      *)
(* never what the call returns.                                            *)
(***************************************************************************)
C1_ExtrasFailureFallsBackToFullScan ==
  (kind = "annual" /\ extras.called /\ ~extras.success) =>
    /\ pc \in ScanPcs \cup {"contacts", "done"}
    /\ pc \in ScanPcs => api.opened = SubSeq(sessionIds, 1, Len(api.opened))
    /\ pc \in {"contacts", "done"} => api.opened = sessionIds
    /\ pc = "contacts" => acc.streakComputedInLoop
    /\ result.returned => result.success
    /\ pc = "done" => result.returned
    /\ \A k \in 1 .. Len(log) : log[k].by = "scan"

C1_Witness ==
  /\ kind = "annual" /\ pc = "done"
  /\ extras.called /\ ~extras.success
  /\ result.returned /\ result.success
  /\ Len(sessionIds) = 2 /\ api.opened = sessionIds
  /\ \E k \in 1 .. Len(log) : log[k].sid = 2

(***************************************************************************)
(* C2.  As stated: when getAnnualReportExtras answers success with a       *)
(* payload, no message cursor is opened and no batch is fetched for the    *)
(* rest of the run, whatever the payload holds.                            *)
(***************************************************************************)
C2_PayloadOpensNoCursor ==
  (kind = "annual" /\ ExtrasGavePayload) =>
    api.opened = <<>> /\ api.fetched = {}

\* Lines 626-635 read on the payload alone: a streak with a session, a
\* positive length and two dates that parse.
PayloadStreakValid(data) ==
  /\ Has(data, "streak")
  /\ data.streak.sessionId # NoSession
  /\ data.streak.days > 0
  /\ data.streak.startDate \notin {Null, InvalidDate}
  /\ data.streak.endDate \notin {Null, InvalidDate}

(***************************************************************************)
(* C2, amended.  After a payload the full scan never runs and no           *)
(* accumulator is fed from a row; no cursor at all is opened when the      *)
(* payload carries a streak with a session, a positive length and valid    *)
(* start and end dates; otherwise the streak-only scan opens one cursor    *)
(* per session, and only the streak fields can differ from what the        *)
(* payload gave.                                                           *)
(***************************************************************************)
C2_PayloadSkipsFullScan ==
  (kind = "annual" /\ ExtrasGavePayload) =>
    LET fast == ApplyExtras(InitAcc, extras.data, PeakDayKey(d))
    IN /\ pc \notin ScanPcs
       /\ scan = InitScan
       /\ \A k \in 1 .. Len(log) : log[k].by = "cls"
       /\ acc.heatmapData = fast.heatmapData
       /\ acc.midnightStats = fast.midnightStats
       /\ acc.conversationStarts = fast.conversationStarts
       /\ acc.responseTimeStats = fast.responseTimeStats
       /\ acc.phraseCount = fast.phraseCount
       /\ acc.dailyContactStats = fast.dailyContactStats
       /\ acc.lastMessageTime = fast.lastMessageTime
       /\ PayloadStreakValid(extras.data) =>
            /\ api.opened = <<>> /\ api.fetched = {}
            /\ pc \in {"contacts", "done"}
       /\ ~PayloadStreakValid(extras.data) =>
            /\ pc \in StreakPcs \cup {"contacts", "done"}
            /\ pc \in {"contacts", "done"} => api.opened = sessionIds

C2_Witness ==
  /\ kind = "annual" /\ pc = "done" /\ result.success
  /\ ExtrasGavePayload /\ ~PayloadStreakValid(extras.data)
  /\ api.opened = sessionIds /\ api.fetched # {}
  /\ Len(log) > 0

(***************************************************************************)
(* The payload getAnnualReportExtras gives for a dataset.  The query runs  *)
(* in the native store, outside these sources; by the specification the    *)
(* payload holds the dataset's statistics, one per accumulator: here the   *)
(* ones the full scan has accumulated over the same rows.                  *)
(***************************************************************************)
PayloadOf(a, data) ==
  LET times == a.responseTimeStats
      base ==
        [ heatmap |-> a.heatmapData,
          midnight |-> a.midnightStats,
          conversation |-> a.conversationStarts,
          response |->
            [k \in DOMAIN times |->
               [ avg |-> RoundDiv(SumSeq(times[k]), Len(times[k])),
                 fastest |-> CHOOSE x \in Range(times[k]) :
                               \A y \in Range(times[k]) : x <= y,
                 count |-> Len(times[k]) ]],
          peakDay |-> MapGet(a.dailyContactStats, PeakDayKey(data), EmptyMap),
          topPhrases |-> Slice(SortDesc(SelectSeq(a.phraseCount, AtLeastTwo)), 32) ]
  IN IF a.longestStreakDays > 0
     THEN [k \in (DOMAIN base) \cup {"streak"} |->
             IF k = "streak"
             THEN [ sessionId |-> a.longestStreakSessionId,
                    days |-> a.longestStreakDays,
                    startDate |-> a.longestStreakStart,
                    endDate |-> a.longestStreakEnd ]
             ELSE base[k]]
     ELSE base

\* Which fields of a report are present and non-null.
Shape(report) ==
  [ heatmap |-> /\ DOMAIN report.activityHeatmap = 0 .. 6
                /\ \A w \in 0 .. 6 : DOMAIN report.activityHeatmap[w] = 0 .. 23,
    midnightKing |-> ~report.midnightKing.null,
    socialInitiative |-> ~report.socialInitiative.null,
    responseSpeed |-> ~report.responseSpeed.null,
    peakDay |-> ~report.peakDay.null,
    topFriend |-> ~report.peakDay.null /\ report.peakDay.topFriend # NoSession,
    topPhrases |-> Len(report.topPhrases) >= 0,
    longestStreak |-> ~report.longestStreak.null ]

\* The report of the fast path over the dataset the full scan has read.
FastPathReport ==
  AnnualReportData(ApplyExtras(InitAcc, PayloadOf(acc, d), PeakDayKey(d)), d, year)

(***************************************************************************)
(* C3.  As stated: the report returned after an extras failure and the     *)
(* full scan has the same fields present and non-null as the report the    *)
(* fast path assembles from a payload holding the same dataset's           *)
(* statistics.                                                             *)
(***************************************************************************)
C3_SameShapeOnBothPaths ==
  (kind = "annual" /\ pc = "done" /\ result.success
     /\ extras.called /\ ~extras.success) =>
    Shape(result.data) = Shape(FastPathReport)

\* One response sample: the full scan reports no responseSpeed, the fast
\* path reports one.
C3_Witness ==
  /\ kind = "annual" /\ pc = "done" /\ result.success
  /\ extras.called /\ ~extras.success
  /\ result.data.responseSpeed.null
  /\ ~FastPathReport.responseSpeed.null
  /\ \E k \in DOMAIN acc.responseTimeStats : Len(acc.responseTimeStats[k]) = 1

(***************************************************************************)
(* C4.  The percent values handed to the progress sink, annual and dual,   *)
(* on every path, never decrease and all lie in 0..100.                    *)
(***************************************************************************)
C4_ProgressMonotone ==
  \A k \in 1 .. Len(progressLog) :
    /\ progressLog[k] \in 0 .. 100
    /\ k > 1 => progressLog[k - 1] <= progressLog[k]

C4_Witness ==
  /\ kind = "annual" /\ pc = "done" /\ result.success
  /\ ~ExtrasGavePayload
  /\ Len(progressLog) >= 9
  /\ \E k \in 1 .. Len(progressLog) : progressLog[k] \in 31 .. 79
  /\ scan.processedMessages > d.total /\ d.total > 0

Terminal(m) == m.type \in {"dualReport:result", "dualReport:error"}

(***************************************************************************)
(* C5.  As stated: a request ends with exactly one terminal message, a     *)
(* success payload or a failure with a reason, and no progress message     *)
(* follows it; the dual worker posts exactly one result or error message,  *)
(* after all its progress messages.                                        *)
(***************************************************************************)
C5_OneTerminalMessage ==
  /\ result.returned => (result.success \/ Has(result, "error"))
  /\ result.returned => pc \in {"return", "done"}
  /\ pc = "done" => result.returned
  /\ \A k \in 1 .. Len(posted) : Terminal(posted[k]) => k = Len(posted)
  /\ (kind = "dual" /\ pc = "done") =>
       Len(posted) > 0 /\ Terminal(posted[Len(posted)])

\* The call has returned a failure that carries no reason.
C5_Witness ==
  /\ pc = "done" /\ result.returned
  /\ ~result.success /\ ~Has(result, "error")

SameDayTimes(st) ==
  {r.create_time : r \in {x \in store.rows : x.create_time # 0
                            /\ DayNumber(x.create_time) = st.lastDayIndex}}

(***************************************************************************)
(* C6.  In the streak of the full scan and of the streak-only scan, a row  *)
(* on the last seen day of the session changes nothing, and the current    *)
(* and the best run are never longer than the number of distinct days the  *)
(* session's rows fall on.                                                 *)
(***************************************************************************)
C6_SameDayIsNoOp ==
  /\ pc \in {"scanFetch", "scanYield", "scanClose"} =>
       /\ \A t \in SameDayTimes(scan.streak) :
            StreakStep(scan.streak, DayDate(DateOf(t))) = scan.streak
       /\ scan.streak.currentStreak
            <= Cardinality(DaysOf(TimedRows(log, "scan", scan.i)))
       /\ scan.streak.maxStreak
            <= Cardinality(DaysOf(TimedRows(log, "scan", scan.i)))
  /\ pc \in {"clsFetch", "clsYield", "clsClose"} =>
       /\ \A t \in SameDayTimes(cls.streak) :
            StreakStepLite(cls.streak, DayDate(DateOf(t))) = cls.streak
       /\ cls.streak.currentStreak
            <= Cardinality(DaysOf(TimedRows(log, "cls", cls.i)))
       /\ cls.streak.maxStreak
            <= Cardinality(DaysOf(TimedRows(log, "cls", cls.i)))

\* Three rows on two days, two of them on the same day.
C6_Witness ==
  /\ pc = "scanClose"
  /\ Len(TimedRows(log, "scan", scan.i)) = 3
  /\ Cardinality(DaysOf(TimedRows(log, "scan", scan.i))) = 2
  /\ scan.streak.maxStreak = 2
  /\ log[Len(log) - 2].row.create_time = T0
  /\ log[Len(log) - 1].row.create_time = T1
  /\ log[Len(log)].row.create_time = TTue
  /\ StreakStep(scan.streak, DayDate(DateOf(TTue))) = scan.streak

(***************************************************************************)
(* C7.  After the rows of a session, delivered in non-decreasing order,    *)
(* the current run is the run of consecutive days that ends at the last    *)
(* day, and the best streak is the longest run of consecutive days, with   *)
(* the first and last day of the earliest such run as start and end, and   *)
(* end - start + 1 = length.                                               *)
(***************************************************************************)
C7_BestStreakIsLongestRun ==
  /\ pc \in {"scanFetch", "scanYield", "scanClose"} =>
       StreakMatches(scan.streak, DaysOf(TimedRows(log, "scan", scan.i)))
  /\ pc \in {"clsFetch", "clsYield", "clsClose"} =>
       StreakMatches(cls.streak, DaysOf(TimedRows(log, "cls", cls.i)))

\* Monday, Tuesday, Wednesday, then Friday: 3 days, Monday to Wednesday.
C7_Witness ==
  /\ pc = "scanClose"
  /\ DaysOf(TimedRows(log, "scan", scan.i))
       = {DayNumber(T0), DayNumber(TTue), DayNumber(TWed), DayNumber(TFri)}
  /\ scan.streak.maxStreak = 3
  /\ scan.streak.maxStart = MidnightOf(DayNumber(T0))
  /\ scan.streak.maxEnd = MidnightOf(DayNumber(TWed))
  /\ scan.streak.currentStreak = 1

(***************************************************************************)
(* C8.  After the scan of all sessions the global best streak is the       *)
(* longest of the sessions' best runs; its session, length, start and end  *)
(* are those of the earliest longest run of the first session, in scan     *)
(* order, that reaches this length; the report carries them.               *)
(***************************************************************************)
C8_GlobalBestStreak ==
  (kind = "annual" /\ ScannedAll
     /\ (ExtrasGavePayload => ~Has(extras.data, "streak"))) =>
    IF LongestRunLen(SessionDays(Winner)) = 0
    THEN /\ acc.longestStreakDays = 0
         /\ acc.longestStreakSessionId = NoSession
         /\ pc = "done" => result.data.longestStreak.null
    ELSE LET run == EarliestLongest(SessionDays(Winner))
         IN /\ acc.longestStreakDays = RunLen(run)
            /\ acc.longestStreakSessionId = sessionIds[Winner + 1]
            /\ acc.longestStreakStart = MidnightOf(run[1])
            /\ acc.longestStreakEnd = MidnightOf(run[2])
            /\ pc = "done" =>
                 /\ ~result.data.longestStreak.null
                 /\ result.data.longestStreak.friendName = sessionIds[Winner + 1]
                 /\ result.data.longestStreak.days = RunLen(run)
                 /\ result.data.longestStreak.startDate = CivilFromDays(run[1])
                 /\ result.data.longestStreak.endDate = CivilFromDays(run[2])

\* Two sessions whose best runs are both 2 days long: the first is kept.
C8_Witness ==
  /\ kind = "annual" /\ pc = "done" /\ result.success
  /\ Len(sessionIds) = 2
  /\ LongestRunLen(SessionDays(0)) = 2
  /\ LongestRunLen(SessionDays(1)) = 2
  /\ SessionDays(0) # SessionDays(1)
  /\ acc.longestStreakSessionId = 1

\* Monday = 0; 1970-01-01 was a Thursday.
WeekdayOf(t) == (DayNumber(t) + 3) % 7

HourOf(t) == (t % 86400) \div 3600

TimedLog == {k \in 1 .. Len(log) : log[k].row.create_time # 0}

SumHeatmap(hm) ==
  SumSeq([w \in 1 .. 7 |-> SumSeq([h \in 1 .. 24 |-> hm[w - 1][h - 1]])])

CellOf(k) ==
  <<WeekdayOf(log[k].row.create_time), HourOf(log[k].row.create_time)>>

(***************************************************************************)
(* C9.  At every point of the full scan each heatmap cell holds the number *)
(* of rows read so far whose timestamp is non-zero and falls on that       *)
(* weekday and hour, so the sum of the cells is the number of rows read    *)
(* with a non-zero timestamp; rows without a timestamp count nowhere.      *)
(***************************************************************************)
C9_HeatmapCountsTimedRows ==
  (kind = "annual" /\ ~acc.useSqlExtras) =>
    /\ \A k \in TimedLog :
         acc.heatmapData[CellOf(k)[1]][CellOf(k)[2]] =
           Cardinality({j \in TimedLog : CellOf(j) = CellOf(k)})
    /\ \A w \in 0 .. 6, h \in 0 .. 23 :
         acc.heatmapData[w][h] = 0 \/ \E k \in TimedLog : CellOf(k) = <<w, h>>
    /\ SumHeatmap(acc.heatmapData) = Cardinality(TimedLog)

\* Two rows in one cell, one in another, and a row without a timestamp.
C9_Witness ==
  /\ kind = "annual" /\ pc = "scanYield"
  /\ Len(log) = 4 /\ Cardinality(TimedLog) = 3
  /\ acc.heatmapData[0][0] = 2
  /\ acc.heatmapData[1][10] = 1
  /\ SumHeatmap(acc.heatmapData) = 3

Starts(rows) ==
  {k \in 1 .. Len(rows) :
     k = 1 \/ rows[k].create_time - rows[k - 1].create_time > 3600}

(***************************************************************************)
(* C10.  A row starts a conversation exactly when it is the first row of   *)
(* its session or comes more than 3600 s after the previous one; a start   *)
(* adds one to initiated when the row is self-sent and one to received     *)
(* otherwise, and records no response sample.                              *)
(***************************************************************************)
C10_ConversationStarts ==
  (kind = "annual" /\ ~acc.useSqlExtras) =>
    \A i \in 0 .. Len(sessionIds) - 1 :
      LET rows == TimedRows(log, "scan", i)
          sid == sessionIds[i + 1]
      IN IF rows = <<>>
         THEN sid \notin DOMAIN acc.conversationStarts
              /\ sid \notin DOMAIN acc.responseTimeStats
         ELSE /\ acc.conversationStarts[sid].initiated =
                   Cardinality({k \in Starts(rows) : rows[k].is_send})
              /\ acc.conversationStarts[sid].received =
                   Cardinality({k \in Starts(rows) : ~rows[k].is_send})
              /\ Len(MapGet(acc.responseTimeStats, sid, <<>>))
                   <= Len(rows) - Cardinality(Starts(rows))

\* A gap of 3600 s that starts nothing, then a gap above it that does.
C10_Witness ==
  /\ kind = "annual" /\ pc = "scanClose" /\ cursor.sid = 1
  /\ Len(log) = 3
  /\ log[1].row.create_time = T0 /\ log[1].row.is_send
  /\ log[2].row.create_time = T1 /\ ~log[2].row.is_send
  /\ log[3].row.create_time = T2 /\ ~log[3].row.is_send
  /\ acc.conversationStarts[1] = [initiated |-> 1, received |-> 1]

\* The rows that would start a conversation if a gap of 3600 s started one.
StartsFromGap(rows) ==
  {k \in 1 .. Len(rows) :
     k = 1 \/ rows[k].create_time - rows[k - 1].create_time >= 3600}

(***************************************************************************)
(* C11.  As stated: a row 3600 s or more after the previous row of its     *)
(* session always starts a conversation and never gives a response sample, *)
(* so the starts of a session are its first row and the rows at least      *)
(* 3600 s after their predecessor, and every sample is below 3600 s.       *)
(***************************************************************************)
C11_GapOfThresholdStartsConversation ==
  (kind = "annual" /\ ~acc.useSqlExtras) =>
    \A i \in 0 .. Len(sessionIds) - 1 :
      LET rows == TimedRows(log, "scan", i)
          sid == sessionIds[i + 1]
          samples == MapGet(acc.responseTimeStats, sid, <<>>)
      IN rows # <<>> =>
           /\ acc.conversationStarts[sid].initiated
                + acc.conversationStarts[sid].received
                  = Cardinality(StartsFromGap(rows))
           /\ \A k \in 1 .. Len(samples) : samples[k] < 3600

(***************************************************************************)
(* C11, amended.  A row more than 3600 s after the previous row of its     *)
(* session always starts a conversation and never gives a response sample; *)
(* a row exactly 3600 s after it starts none and, when self answers the    *)
(* peer, gives a sample of 3600 s.                                         *)
(***************************************************************************)
C11_GapAboveThresholdStartsConversation ==
  (kind = "annual" /\ ~acc.useSqlExtras) =>
    \A i \in 0 .. Len(sessionIds) - 1 :
      LET rows == TimedRows(log, "scan", i)
          sid == sessionIds[i + 1]
          samples == MapGet(acc.responseTimeStats, sid, <<>>)
          late == {k \in 2 .. Len(rows) :
                    rows[k].create_time - rows[k - 1].create_time > 3600}
          atGap == {k \in 2 .. Len(rows) :
                     /\ rows[k].create_time - rows[k - 1].create_time = 3600
                     /\ ~rows[k - 1].is_send /\ rows[k].is_send}
      IN rows # <<>> =>
           /\ acc.conversationStarts[sid].initiated
                + acc.conversationStarts[sid].received = 1 + Cardinality(late)
           /\ \A k \in 1 .. Len(samples) : samples[k] <= 3600
           /\ Cardinality({k \in 1 .. Len(samples) : samples[k] = 3600})
                = Cardinality(atGap)

\* The peer writes, self answers exactly 3600 s later: one conversation, and
\* a response sample of 3600 s.
C11_Witness ==
  /\ kind = "annual" /\ pc = "scanClose" /\ cursor.sid = 1
  /\ Len(log) = 2
  /\ log[1].row.create_time = T0 /\ ~log[1].row.is_send
  /\ log[2].row.create_time = T1 /\ log[2].row.is_send
  /\ acc.conversationStarts[1] = [initiated |-> 0, received |-> 1]
  /\ acc.responseTimeStats[1] = <<3600>>

\* The rows of a session that answer the peer within the conversation.
Replies(rows) ==
  {k \in 2 .. Len(rows) :
     /\ ~rows[k - 1].is_send /\ rows[k].is_send
     /\ rows[k].create_time - rows[k - 1].create_time <= 3600
     /\ rows[k].create_time - rows[k - 1].create_time > 0}

RECURSIVE GapsFrom(_, _, _)
GapsFrom(rows, ks, k) ==
  IF k > Len(rows) THEN <<>>
  ELSE IF k \in ks
    THEN <<rows[k].create_time - rows[k - 1].create_time>>
         \o GapsFrom(rows, ks, k + 1)
  ELSE GapsFrom(rows, ks, k + 1)

AllSamples ==
  UNION {Range(acc.responseTimeStats[sid]) : sid \in DOMAIN acc.responseTimeStats}

(***************************************************************************)
(* C12.  Every response sample recorded for any session is above 0 and     *)
(* below 86400 seconds.                                                    *)
(***************************************************************************)
C12_SamplesWithinCeiling ==
  \A x \in AllSamples : x > 0 /\ x < 86400

\* Self answers the peer 500 s later, and the peer writes again in the same
\* second: one sample of 500 s.
C12_Witness ==
  /\ kind = "annual" /\ pc = "done" /\ result.success
  /\ Len(log) = 3
  /\ ~log[1].row.is_send /\ log[2].row.is_send /\ ~log[3].row.is_send
  /\ log[2].row.create_time = log[1].row.create_time + 500
  /\ log[3].row.create_time = log[2].row.create_time
  /\ AllSamples = {500}

(***************************************************************************)
(* C13.  The response samples of a session are, in order, the gaps of the  *)
(* rows that follow a row of the peer, are sent by self and belong to the  *)
(* same conversation; no other change of sender gives a sample.            *)
(***************************************************************************)
C13_SampleIsReplyToPeer ==
  (kind = "annual" /\ ~acc.useSqlExtras) =>
    \A i \in 0 .. Len(sessionIds) - 1 :
      LET rows == TimedRows(log, "scan", i)
          sid == sessionIds[i + 1]
      IN MapGet(acc.responseTimeStats, sid, <<>>)
           = GapsFrom(rows, Replies(rows), 2)

\* Self at 500, the peer at 1000, self at 1500: one sample of 500 s.
C13_Witness ==
  /\ kind = "annual" /\ pc = "scanClose" /\ cursor.sid = 1
  /\ Len(log) = 3
  /\ log[1].row.create_time = TEarly /\ log[1].row.is_send
  /\ log[2].row.create_time = T0 /\ ~log[2].row.is_send
  /\ log[3].row.create_time = TLate /\ log[3].row.is_send
  /\ acc.responseTimeStats[1] = <<500>>

\* The number of response samples behind a session's entry in the ranking:
\* the count of its payload entry when the payload's statistics are used
\* (lines 945-957), the number of its samples otherwise (lines 971-979).
ResponseSamples(a, sid) ==
  IF DOMAIN a.responseStatsFromSql # {}
  THEN MapGet(a.responseStatsFromSql, sid, [count |-> 0]).count
  ELSE Len(MapGet(a.responseTimeStats, sid, <<>>))

\* The sessions whose response statistics enter responseSpeed.
ResponseContributors(a) ==
  IF DOMAIN a.responseStatsFromSql # {}
  THEN SqlCounted(a.responseStatsFromSql)
  ELSE ScanCounted(a.responseTimeStats)

\* The sum of a session's response samples: avg * count of its payload entry,
\* or the sum of the samples the scan recorded.
ResponseSum(a, sid) ==
  IF DOMAIN a.responseStatsFromSql # {}
  THEN a.responseStatsFromSql[sid].avg * a.responseStatsFromSql[sid].count
  ELSE SumSeq(a.responseTimeStats[sid])

\* The sessions with at least 10 response samples.
Qualifying(a) ==
  {sid \in Range(sessionIds) :
     ResponseSamples(a, sid) >= MIN_RESPONSE_SAMPLES}

(***************************************************************************)
(* C14.  As stated: in an annual report whose responseSpeed is non-null,   *)
(* on either path, only sessions with at least 10 response samples         *)
(* contribute to the ranking and to the average, and the average response  *)
(* time is the sum of all samples of those sessions divided by their       *)
(* number.                                                                 *)
(***************************************************************************)
C14_OnlyTenSampleSessionsContribute ==
  (kind = "annual" /\ pc = "done" /\ result.success
     /\ ~result.data.responseSpeed.null) =>
    /\ \A sid \in ResponseContributors(acc) :
         ResponseSamples(acc, sid) >= MIN_RESPONSE_SAMPLES
    /\ result.data.responseSpeed.fastestFriend \in Qualifying(acc)
    /\ Qualifying(acc) # {}
    /\ result.data.responseSpeed.avgResponseTime =
         RoundDiv(SumMap([sid \in Qualifying(acc) |-> ResponseSum(acc, sid)]),
                  SumMap([sid \in Qualifying(acc) |->
                            ResponseSamples(acc, sid)]))

\* The payload names one session with a single response sample, and the
\* report ranks it fastest.
C14_Witness ==
  /\ kind = "annual" /\ pc = "done" /\ result.success
  /\ ExtrasGavePayload
  /\ ~result.data.responseSpeed.null
  /\ result.data.responseSpeed.fastestFriend = 1
  /\ result.data.responseSpeed.avgResponseTime = 30
  /\ acc.responseStatsFromSql[1].count = 1

StrGt == <<62>>                            \* ">"

\* The keys of a phrase map.
PhraseKeys(m) == {m[k].phrase : k \in 1 .. Len(m)}

\* A text with no white space at either end.
Trimmed(s) == s # <<>> => (s[1] \notin WhiteSpace /\ s[Len(s)] \notin WhiteSpace)

\* A text whose only white space is single spaces.
Collapsed(s) ==
  \A k \in 1 .. Len(s) :
    s[k] \in WhiteSpace =>
      s[k] = 32 /\ (k < Len(s) => s[k + 1] \notin WhiteSpace)

(***************************************************************************)
(* C15.  As stated: every key of a phrase map has a length within 2..20    *)
(* (annual) or 2..50 (dual), contains no "http" and no angle bracket, and  *)
(* does not start with "[" or with "<?xml".                                *)
(***************************************************************************)
C15_KeysHaveNoAngleBracket ==
  /\ \A key \in PhraseKeys(acc.phraseCount) :
       /\ Len(key) >= 2 /\ Len(key) <= 20
       /\ ~Includes(key, StrHttp)
       /\ ~Includes(key, StrLt) /\ ~Includes(key, StrGt)
       /\ ~StartsWith(key, StrBracket) /\ ~StartsWith(key, StrXml)
  /\ \A key \in PhraseKeys(dual.wordCountMap) :
       /\ Len(key) >= 2 /\ Len(key) <= 50
       /\ ~Includes(key, StrHttp)
       /\ ~Includes(key, StrLt) /\ ~Includes(key, StrGt)
       /\ ~StartsWith(key, StrBracket) /\ ~StartsWith(key, StrXml)

(***************************************************************************)
(* C15, amended: every key of a phrase map has a length within 2..20       *)
(* (annual, the trimmed text) or 2..50 (dual, the trimmed text with every  *)
(* run of white space collapsed to one space), contains no "http" and no   *)
(* "<", and does not start with "[" or with "<?xml"; a ">" is allowed.     *)
(***************************************************************************)
C15_KeysPassTheFilters ==
  /\ \A key \in PhraseKeys(acc.phraseCount) :
       /\ Len(key) >= 2 /\ Len(key) <= 20
       /\ Trimmed(key)
       /\ ~Includes(key, StrHttp) /\ ~Includes(key, StrLt)
       /\ ~StartsWith(key, StrBracket) /\ ~StartsWith(key, StrXml)
  /\ \A key \in PhraseKeys(dual.wordCountMap) :
       /\ Len(key) >= 2 /\ Len(key) <= 50
       /\ Trimmed(key) /\ Collapsed(key)
       /\ ~Includes(key, StrHttp) /\ ~Includes(key, StrLt)
       /\ ~StartsWith(key, StrBracket) /\ ~StartsWith(key, StrXml)

\* The annual scan has read "a>b" and a text of 20 characters and keeps both
\* as keys.
C15_Witness ==
  /\ kind = "annual" /\ pc = "scanClose"
  /\ Len(log) = 2
  /\ {log[1].row.message_content, log[2].row.message_content}
       = {TextGt, Text20}
  /\ PhraseKeys(acc.phraseCount) = {TextGt, Text20}

\* The dual scan has read "a>b" and the text with a space and a tab, and
\* keeps "a>b" and "a b".
C15_WitnessDual ==
  /\ kind = "dual" /\ pc = "dualClose"
  /\ Len(log) = 2
  /\ {log[1].row.message_content, log[2].row.message_content}
       = {TextGt, TextSpaced}
  /\ PhraseKeys(dual.wordCountMap) = {TextGt, <<97, 32, 98>>}

IsTextType(t) == t = LOCAL_TYPE_TEXT \/ t = LOCAL_TYPE_TEXT_EXT

\* The sum of the counts of a phrase map.
SumCounts(m) == SumSeq([k \in 1 .. Len(m) |-> m[k].count])

\* The rows read by a scan.
RowsBy(by) == {k \in 1 .. Len(log) : log[k].by = by}

(***************************************************************************)
(* C16.  Only text messages are counted as phrases.  The annual scan       *)
(* counts a text row exactly when it is self-sent (and carries a           *)
(* timestamp, without which the row is skipped whole); the dual scan       *)
(* counts the text rows of both sides.  Every text here passes the filter, *)
(* so the counts of the phrase map add up to the number of such rows.      *)
(***************************************************************************)
C16_PhrasesCountTextRows ==
  /\ kind = "annual" =>
       SumCounts(acc.phraseCount) =
         Cardinality({k \in RowsBy("scan") :
                        /\ IsTextType(log[k].row.local_type)
                        /\ log[k].row.is_send
                        /\ log[k].row.create_time # 0})
  /\ kind = "dual" =>
       SumCounts(dual.wordCountMap) =
         Cardinality({k \in RowsBy("dual") :
                        IsTextType(log[k].row.local_type)})

\* The annual scan has read a self-sent text, a text of the peer and a
\* self-sent image, and has counted one phrase.
C16_Witness ==
  /\ kind = "annual" /\ pc = "scanClose"
  /\ Len(log) = 3
  /\ \E i, j, k \in 1 .. 3 :
       /\ log[i].row.is_send /\ log[i].row.local_type = LOCAL_TYPE_TEXT
       /\ ~log[j].row.is_send /\ log[j].row.local_type = LOCAL_TYPE_TEXT_EXT
       /\ log[k].row.is_send /\ log[k].row.local_type = 3
       /\ \A n \in {i, j, k} : log[n].row.create_time = T0
  /\ acc.phraseCount = <<[phrase |-> TextOk, count |-> 1]>>

\* The dual scan has read a text of each side and an image, and has
\* counted two phrases.
C16_WitnessDual ==
  /\ kind = "dual" /\ pc = "dualClose"
  /\ Cardinality(RowsBy("dual")) = 3
  /\ \E i, j, k \in RowsBy("dual") :
       /\ log[i].row.is_send /\ IsTextType(log[i].row.local_type)
       /\ ~log[j].row.is_send /\ IsTextType(log[j].row.local_type)
       /\ log[k].row.local_type = 3
  /\ dual.wordCountMap = <<[phrase |-> TextOk, count |-> 2]>>

\* The phrase key the annual scan counts for a row, <<>> when it counts none
\* (lines 671 and 698-703).
AnnualKey(row) ==
  LET text == Trim(decodeMessageContent(row.message_content,
                                        row.compress_content))
  IN IF row.create_time # 0 /\ row.is_send /\ IsTextType(row.local_type)
        /\ AnnualPhraseEligible(text)
     THEN text ELSE <<>>

\* The phrase key the dual scan counts for a row, <<>> when it counts none
\* (lines 372-383).
DualKey(row) ==
  LET normalized ==
        Trim(CollapseSpaces(Trim(decodeMessageContent(row.message_content,
                                                      row.compress_content))))
  IN IF IsTextType(row.local_type) /\ DualPhraseEligible(normalized)
     THEN normalized ELSE <<>>

KeyOf(by, row) == IF by = "dual" THEN DualKey(row) ELSE AnnualKey(row)

\* The number of rows read by a scan that count for a phrase.
Occurrences(by, phrase) ==
  Cardinality({k \in RowsBy(by) : KeyOf(by, log[k].row) = phrase})

\* A list of phrases seen twice or more, in non-increasing order of count,
\* of at most n entries.
Ranked(list, n) ==
  /\ Len(list) <= n
  /\ \A k \in 1 .. Len(list) : list[k].count >= 2
  /\ \A k \in 1 .. Len(list) - 1 : list[k].count >= list[k + 1].count

\* Every count of the list is the number of rows read by the scan that count
\* for the phrase; no phrase is listed twice; and a phrase seen twice or more
\* is left out only of a full list, and only when it was seen no more often
\* than the last phrase listed.
Counted(list, by, n) ==
  /\ \A k \in 1 .. Len(list) :
       list[k].count = Occurrences(by, list[k].phrase)
  /\ \A j, k \in 1 .. Len(list) : list[j].phrase = list[k].phrase => j = k
  /\ \A e \in RowsBy(by) :
       LET key == KeyOf(by, log[e].row)
       IN (key # <<>> /\ Occurrences(by, key) >= 2) =>
            \/ \E k \in 1 .. Len(list) : list[k].phrase = key
            \/ Len(list) = n /\ Occurrences(by, key) <= list[n].count

Returned == result.returned /\ result.success

C17_Witness ==
  /\ kind = "annual" /\ pc = "done" /\ Returned
  /\ ~acc.useSqlExtras
  /\ Len(log) = 5
  /\ acc.phraseCount = <<[phrase |-> TextGt, count |-> 2],
                         [phrase |-> TextOk, count |-> 3]>>
  /\ result.data.topPhrases = <<[phrase |-> TextOk, count |-> 3],
                                [phrase |-> TextGt, count |-> 2]>>

\* The payload's list is returned: in no order, with a phrase seen once.
C17_WitnessPayload ==
  /\ kind = "annual" /\ pc = "done" /\ Returned
  /\ ExtrasGavePayload
  /\ result.data.topPhrases = UnrankedPayload.topPhrases

C17_WitnessCutDual ==
  /\ kind = "dual" /\ pc = "done" /\ Returned
  /\ Len(dual.wordCountMap) = 51
  /\ Len(result.data.topPhrases) = 50
  /\ result.data.topPhrases[1] = [phrase |-> PhraseText(51), count |-> 3]

\* The number of rows of the session scanned i-th that fall before six.
MidnightRows(i) ==
  Cardinality({k \in RowsBy("scan") :
                 /\ log[k].i = i
                 /\ log[k].row.create_time # 0
                 /\ HourOf(log[k].row.create_time) < 6})

ScanIndexes == 0 .. Len(sessionIds) - 1

MidnightTotal == SumSeq([n \in 1 .. Len(sessionIds) |-> MidnightRows(n - 1)])

(***************************************************************************)
(* C18.  In the full scan a row adds one to its session's midnight counter *)
(* exactly when its hour is in 0..5.  The midnight champion of the report  *)
(* is absent exactly when the counters add up to zero; otherwise it is the *)
(* first session, in scan order, with the highest counter, with that       *)
(* counter as its count and, as its percentage, the counter divided by the *)
(* sum of all counters (in tenths of a percent, rounded).                  *)
(***************************************************************************)
C18_MidnightChampion ==
  (kind = "annual" /\ ~acc.useSqlExtras) =>
    /\ \A i \in ScanIndexes :
         MapGet(acc.midnightStats, sessionIds[i + 1], 0) = MidnightRows(i)
    /\ \A sid \in DOMAIN acc.midnightStats : acc.midnightStats[sid] > 0
    /\ (pc = "done" /\ result.success) =>
         LET king == result.data.midnightKing
         IN IF MidnightTotal = 0 THEN king.null
            ELSE /\ ~king.null
                 /\ \E i \in ScanIndexes :
                      /\ king.displayName = sessionIds[i + 1]
                      /\ king.count = MidnightRows(i)
                      /\ \A j \in ScanIndexes :
                           /\ MidnightRows(j) <= MidnightRows(i)
                           /\ j < i => MidnightRows(j) < MidnightRows(i)
                 /\ king.percentage10 =
                      RoundDiv(king.count * 1000, MidnightTotal)

\* The first session has a row at 05:59:59 and one at 06:00:00, the second a
\* row in the first hour: one midnight row each, and the first session is
\* the champion with 50 %.
C18_Witness ==
  /\ kind = "annual" /\ pc = "done" /\ result.success
  /\ Len(log) = 3
  /\ log[1].row.create_time = TBeforeSix /\ log[1].i = 0
  /\ log[2].row.create_time = TSix /\ log[2].i = 0
  /\ log[3].row.create_time = T0 /\ log[3].i = 1
  /\ acc.midnightStats = (1 :> 1) @@ (2 :> 1)
  /\ result.data.midnightKing =
       [null |-> FALSE, displayName |-> 1, count |-> 1, percentage10 |-> 500]

\* No row before six was read: no champion.
C18_WitnessNone ==
  /\ kind = "annual" /\ pc = "done" /\ result.success
  /\ Len(log) = 2
  /\ \A k \in 1 .. 2 : log[k].row.create_time = TSix
  /\ result.data.midnightKing = NullField

\* Two midnight rows of three are the second session's: 66.7 %.
C18_WitnessShare ==
  /\ kind = "annual" /\ pc = "done" /\ result.success
  /\ ~result.data.midnightKing.null
  /\ result.data.midnightKing.displayName = 2
  /\ result.data.midnightKing.count = 2
  /\ result.data.midnightKing.percentage10 = 667

\* The accumulators after the rows of the log, read by the full scan, are
\* processed in order with no failure in between.
RECURSIVE ReplayFrom(_, _)
ReplayFrom(st, l) ==
  IF l = <<>> THEN st
  ELSE ReplayFrom(IF Head(l).by = "scan"
                  THEN ProcessRow(st, Head(l).sid, Head(l).row, d, sessionIds)
                  ELSE st,
                  Tail(l))

Replayed == ReplayFrom([acc |-> InitAcc, scan |-> InitScan], log)

\* The longest run of days among the sessions' rows read.
LongestOfAll ==
  IF sessionIds = <<>> THEN 0
  ELSE LongestRunLen(SessionDays(Winner))

(***************************************************************************)
(* C19.  In the annual scans a cursor that fails to open, or a batch that  *)
(* fails to arrive, ends the scan of that session only.  The accumulators  *)
(* of the full scan are at every moment those of the rows read so far, in  *)
(* order, whatever failed in between; once the scan is over every session  *)
(* of the list has had its cursor opened, in order, and the global best    *)
(* streak is the longest run among all the rows read, those of a session   *)
(* whose scan failed half-way included.                                    *)
(***************************************************************************)
C19_FailureEndsOneSessionOnly ==
  kind = "annual" =>
    /\ ~acc.useSqlExtras =>
         /\ acc.heatmapData = Replayed.acc.heatmapData
         /\ acc.midnightStats = Replayed.acc.midnightStats
         /\ acc.conversationStarts = Replayed.acc.conversationStarts
         /\ acc.responseTimeStats = Replayed.acc.responseTimeStats
         /\ acc.phraseCount = Replayed.acc.phraseCount
         /\ acc.dailyContactStats = Replayed.acc.dailyContactStats
         /\ acc.lastMessageTime = Replayed.acc.lastMessageTime
         /\ scan.processedMessages = Replayed.scan.processedMessages
    /\ ScannedAll =>
         /\ api.opened = sessionIds
         /\ acc.longestStreakDays = LongestOfAll

\* The first session was scanned to its end; the second has given one batch
\* and its next fetch has failed: the loop is left with hasMore still true
\* and the rows of both sessions are kept.
C19_Witness ==
  /\ kind = "annual" /\ pc = "scanClose"
  /\ cursor.sid = 2 /\ cursor.hasMore /\ cursor.fetches = 1
  /\ api.opened = <<1, 2>> /\ api.closed = <<1>>
  /\ \E j, k \in 1 .. Len(log) : log[j].i = 0 /\ log[k].i = 1
  /\ SumHeatmap(acc.heatmapData) = Len(log)

\* The cursor of the first session did not open, the second session was
\* scanned, and the report is returned.
C19_WitnessOpen ==
  /\ kind = "annual" /\ pc = "done" /\ result.success
  /\ ~acc.useSqlExtras
  /\ api.opened = <<1, 2>> /\ api.closed = <<2>>
  /\ Len(log) > 0

\* The same in computeLongestStreak: a fetch of the first session failed
\* after one batch, and the second session was read.
C19_WitnessStreak ==
  /\ kind = "annual" /\ pc = "done" /\ result.success
  /\ ExtrasGavePayload
  /\ api.opened = <<1, 2>>
  /\ \E j, k \in 1 .. Len(log) : log[j].i = 0 /\ log[k].i = 1

\* The reasons ensureConnectedWithConfig gives (lines 203-209).
ConnectionErrors == {"noWxid", "noDbPath", "noDecryptKey", "openFailed"}

(***************************************************************************)
(* C20.  As stated: the annual and the dual report return success = false  *)
(* only for a connection or configuration error (no account id, no store   *)
(* path, no key, or the store did not open); whatever else goes wrong, the *)
(* call returns success with a report.                                     *)
(***************************************************************************)
C20_HardFailureOnlyForConnection ==
  (result.returned /\ ~result.success) =>
    /\ Has(result, "error") => result.error \in ConnectionErrors
    /\ api.calls \subseteq {"open"}
    /\ api.opened = <<>>

\* The dual report's cursor did not open: the call returns a failure after
\* the connection had succeeded and the first messages had been read.
C20_Witness ==
  /\ kind = "dual" /\ result.returned /\ ~result.success
  /\ Has(result, "error")
  /\ result.error = "cursorFailed"
  /\ "open" \in api.calls
  /\ api.opened # <<>>

\* The annual report finds no session, or gets no statistics: a failure.
C20_WitnessAnnual ==
  /\ kind = "annual" /\ pc = "done" /\ ~result.success
  /\ Has(result, "error")
  /\ result.error \in {"noSessions", "statsFailed"}
  /\ "getSessions" \in api.calls

\* No row of the window has reached this run: the statistics count no
\* message, no cursor has given a row and the payload, if any, is empty.
NoMessages ==
  /\ Len(log) = 0
  /\ kind = "annual" =>
       /\ d.total = 0
       /\ ExtrasGavePayload => extras.data = EmptyPayload

(***************************************************************************)
(* C21.  As stated: when no session is found, or when the window holds no  *)
(* message, the report call returns success, not an error, and the fields  *)
(* that depend on the data are null: peakDay, longestStreak, midnightKing, *)
(* mutualFriend, socialInitiative and responseSpeed in the annual report,  *)
(* firstChat and yearFirstChat in the dual report.                         *)
(***************************************************************************)
C21_NoDataIsSuccess ==
  /\ (kind = "annual" /\ pc = "done" /\ "getSessions" \in api.calls
        /\ sessionIds = <<>>) =>
       result.success
  /\ (kind = "annual" /\ pc = "done" /\ result.success /\ NoMessages) =>
       /\ result.data.peakDay.null
       /\ result.data.longestStreak.null
       /\ result.data.midnightKing.null
       /\ result.data.mutualFriend.null
       /\ result.data.socialInitiative.null
       /\ result.data.responseSpeed.null
  /\ (kind = "dual" /\ result.returned /\ result.success /\ NoMessages) =>
       /\ result.data.firstChat.null
       /\ result.data.yearFirstChat.null

\* The connection succeeded, the list of private sessions is empty, and the
\* call has returned a failure.
C21_Witness ==
  /\ kind = "annual" /\ pc = "done"
  /\ "open" \in api.calls /\ "getSessions" \in api.calls
  /\ sessionIds = <<>>
  /\ ~result.success /\ Has(result, "error") /\ result.error = "noSessions"

\* The run has ended at the connection step: the failure carries one of the
\* four connection errors, or no error at all (the account id is blank, so
\* the cleaned id is empty although the store opened).
RefusedAtConnection ==
  /\ result.returned /\ ~result.success
  /\ Has(result, "error") => result.error \in ConnectionErrors

\* A setting is missing: ensureConnectedWithConfig answered before the open.
SettingMissing ==
  /\ result.returned /\ ~result.success /\ Has(result, "error")
  /\ result.error \in {"noWxid", "noDbPath", "noDecryptKey"}

(***************************************************************************)
(* C22.  When the account id, the store path or the decryption key is      *)
(* missing, or the store cannot be opened, the run returns its failure at  *)
(* once: the session list, the bulk queries, the name and count queries    *)
(* are never asked, no cursor is opened and no batch is fetched, and the   *)
(* only progress reported is the 5 of the connection step.  With a setting *)
(* missing the store is not even opened.                                   *)
(***************************************************************************)
C22_ConnectionFailureReturnsAtOnce ==
  /\ RefusedAtConnection =>
       /\ api.calls \subseteq {"open"}
       /\ api.opened = <<>> /\ api.closed = <<>> /\ api.fetched = {}
       /\ log = <<>>
       /\ sessionIds = <<>>
       /\ progressLog = <<5>>
       /\ pc \in {"done", "return"}
  /\ SettingMissing => api.calls = {}

\* The store could not be opened in an annual run.
C22_Witness ==
  /\ kind = "annual" /\ pc = "done" /\ RefusedAtConnection
  /\ Has(result, "error") /\ result.error = "openFailed"
  /\ api.calls = {"open"}

\* The decryption key is missing in a dual run.
C22_WitnessDual ==
  /\ kind = "dual" /\ pc = "done" /\ RefusedAtConnection
  /\ Has(result, "error") /\ result.error = "noDecryptKey"

\* The account id is blank.
C22_WitnessBlank ==
  /\ pc = "done" /\ RefusedAtConnection /\ ~Has(result, "error")

(***************************************************************************)
(* C23.  During a full scan (annual or dual) every scan-progress emission  *)
(* comes more than PROGRESS_INTERVAL (200 ms) after the one before it,     *)
(* however many batches were processed in between.                         *)
(***************************************************************************)
C23_ScanProgressIsSpaced == api.spaced

\* An annual scan has emitted progress twice, the second time just now.
C23_Witness ==
  /\ kind = "annual" /\ pc = "scanYield"
  /\ api.heard >= 2 /\ api.quiet = 0
  /\ cursor.fetches >= 2

\* The same for the scan of the dual report.
C23_WitnessDual ==
  /\ kind = "dual" /\ pc \in {"dualFetch", "dualClose"}
  /\ api.heard >= 2 /\ api.quiet = 0

\* A batch was processed less than the interval after an emission and
\* nothing was emitted for it.
C23_WitnessHeldBack ==
  /\ pc = "scanYield" /\ api.heard >= 1
  /\ api.quiet > 0 /\ api.quiet <= PROGRESS_INTERVAL

Last(s) == s[Len(s)]

\* The value the statement gives for a scan-progress emission: the ratio is
\* by messages when the total is known and by sessions otherwise.
StatedProgress(processed, total, sessionsProcessed, totalSessions) ==
  IF total > 0 THEN 30 + (Min(processed, total) * 50) \div total
  ELSE 30 + (Min(sessionsProcessed, totalSessions) * 50) \div totalSessions

\* This step is a batch of a scan that emits progress.
Emits == api'.heard = api.heard + 1

(***************************************************************************)
(* C24.  As stated: every progress value emitted during the full scan lies *)
(* in 30..80 and equals 30 + floor(ratio * 50), the ratio being            *)
(* processedMessages / totalMessages when the total is greater than 0 and  *)
(* sessionsProcessed / totalSessions otherwise, capped at 1.               *)
(***************************************************************************)
C24_ScanProgressFormula ==
  [][Emits =>
       /\ Last(progressLog') \in 30 .. 80
       /\ kind = "annual" =>
            Last(progressLog') =
              StatedProgress(scan'.processedMessages, d.total,
                             scan.i + 1, Len(sessionIds))
       /\ kind = "dual" =>
            Last(progressLog') =
              StatedProgress(dual'.processed, dual'.totalForProgress, 1, 1)]_vars

\* The statistics count no message, the cursor of the first of two sessions
\* gives an empty batch, and the scan reports 30 where the ratio by
\* sessions gives 55.
C24_Witness ==
  /\ kind = "annual" /\ pc = "scanYield"
  /\ d.total = 0 /\ Len(sessionIds) = 2 /\ scan.i = 0
  /\ Len(log) = 0 /\ api.heard = 1
  /\ Last(progressLog) = 30

\* The batch loops the statement names: the annual full scan, the
\* streak-only scan and the scan of the dual report.
ScanLoopPcs == {"scanFetch", "clsFetch", "dualFetch"}

\* This step of a scan loop has fetched and processed a batch.
BatchProcessed ==
  /\ pc \in ScanLoopPcs
  /\ cursor'.fetches = cursor.fetches + 1

(***************************************************************************)
(* C25.  As stated: in each of the three scan loops a processed batch is   *)
(* followed by a yield to the scheduler before the next batch is fetched,  *)
(* so the loop is never at its fetch again right after a batch.            *)
(***************************************************************************)
C25_YieldAfterEachBatch ==
  [][BatchProcessed => pc' \notin ScanLoopPcs]_vars

\* The dual scan has processed a batch that announced more rows and stands
\* at its next fetch with no step in between.
C25_Witness ==
  /\ kind = "dual" /\ pc = "dualFetch"
  /\ cursor.fetches >= 1 /\ cursor.hasMore
  /\ \E k \in 1 .. Len(log) : log[k].by = "dual"

(***************************************************************************)
(* C26.  Within one report computation at most one message cursor is open  *)
(* at any time: a cursor is opened only when none is open, the open one is *)
(* the one asked for last, every batch is fetched from it, and it is       *)
(* closed before the next session is opened.                               *)
(***************************************************************************)
C26_OneCursorAtATime ==
  /\ api.live \in {0, 1}
  /\ api.live = 1 <=> cursor # NoCursor
  /\ api.live = 1 => Last(api.opened) = cursor.sid
  /\ Len(api.closed) + api.live <= Len(api.opened)
  /\ pc \in {"scanOpen", "clsOpen", "gfOpen", "dualOpen"} => api.live = 0

\* The annual scan is reading the second session after closing the first.
C26_Witness ==
  /\ kind = "annual" /\ pc = "scanYield"
  /\ api.live = 1 /\ cursor.sid = 2
  /\ api.closed = <<1>> /\ api.opened = <<1, 2>>
  /\ \E k \in 1 .. Len(log) : log[k].sid = 1
  /\ \E k \in 1 .. Len(log) : log[k].sid = 2

\* The dual report is reading with its third cursor on the same session.
C26_WitnessDual ==
  /\ kind = "dual" /\ pc = "dualFetch"
  /\ api.live = 1 /\ Len(api.closed) = 2 /\ Len(api.opened) = 3

WholeHistory == [begin |-> 0, end |-> 0]

(***************************************************************************)
(* C28.  A year of 0 or less means all time: every bulk query and every    *)
(* scan cursor is asked for the window begin = end = 0 (the whole          *)
(* history; getFirstMessages turns the end 0 into the present moment), the *)
(* year field of the report is 0, and the dual report asks for no first    *)
(* chat of the year and reports yearFirstChat as null.  A year above 0     *)
(* gives the window of that year and is reported as given.                 *)
(***************************************************************************)
C28_YearZeroIsAllTime ==
  /\ year <= 0 =>
       /\ api.windows \subseteq {WholeHistory, SafeWindow(WholeHistory)}
       /\ kind = "annual" => api.windows \subseteq {WholeHistory}
       /\ (result.returned /\ result.success) => result.data.year = 0
       /\ kind = "dual" =>
            /\ dual.phase = "first" /\ dual.firstYearRows = <<>>
            /\ (result.returned /\ result.success) =>
                 result.data.yearFirstChat.null
  /\ year > 0 =>
       /\ api.windows \subseteq {Window(year), SafeWindow(WholeHistory)}
       /\ (result.returned /\ result.success) => result.data.year = year

\* An annual report for the year -1 that scanned rows with the whole-history
\* window.
C28_Witness ==
  /\ kind = "annual" /\ year = -1 /\ pc = "done" /\ result.success
  /\ api.windows = {WholeHistory}
  /\ Len(log) > 0 /\ Len(api.opened) > 0
  /\ result.data.year = 0

\* A dual report for the year 0 that has a first chat and no first chat of
\* the year.
C28_WitnessDual ==
  /\ kind = "dual" /\ year = 0 /\ pc = "done" /\ result.success
  /\ WholeHistory \in api.windows
  /\ ~result.data.firstChat.null /\ result.data.yearFirstChat.null
  /\ \E k \in 1 .. Len(log) : log[k].by = "dual"

\* A dual report for 2023 that found a first chat of the year.
C28_WitnessYear ==
  /\ kind = "dual" /\ year = 2023 /\ pc = "done" /\ result.success
  /\ ~result.data.yearFirstChat.null
  /\ api.windows = {Window(2023), SafeWindow(WholeHistory)}

\* The highest count of the daily counts, 0 when there is none.
HighestDaily ==
  IF d.daily = <<>> THEN 0
  ELSE CHOOSE c \in {d.daily[k].count : k \in DOMAIN d.daily} :
         \A k \in DOMAIN d.daily : d.daily[k].count <= c

\* The first day of the daily counts that has the highest count.
BusiestDay ==
  d.daily[CHOOSE k \in DOMAIN d.daily :
            /\ d.daily[k].count = HighestDaily
            /\ \A j \in 1 .. k - 1 : d.daily[j].count < HighestDaily].day

\* The rows of the session scanned i-th, in the full scan, that fall on
\* day number n.
RowsOnDay(i, n) ==
  Cardinality({k \in RowsBy("scan") :
                 /\ log[k].i = i
                 /\ log[k].row.create_time # 0
                 /\ DayNumber(log[k].row.create_time) = n})

\* The first session, in scan order, with the most rows on day number n.
TopOnDay(n) ==
  CHOOSE i \in ScanIndexes :
    \A j \in ScanIndexes :
      \/ RowsOnDay(j, n) < RowsOnDay(i, n)
      \/ (RowsOnDay(j, n) = RowsOnDay(i, n) /\ i <= j)

(***************************************************************************)
(* C29.  The daily counts are asked with the bulk statistics, before the   *)
(* extras call, on both paths.  The peak day of the report is absent when  *)
(* no day has a count above zero; otherwise it is the first day with the   *)
(* highest count, reported with that count.  On the full-scan path the     *)
(* per-contact breakdown holds, for each session, the number of its rows   *)
(* that fall on that day and nothing for any other day, and the top friend *)
(* is the first session, in scan order, with the most such rows (none, with *)
(* count 0, when no row falls on the day).                                 *)
(***************************************************************************)
C29_PeakDayFromDailyCounts ==
  /\ "getAnnualReportExtras" \in api.calls =>
       "getAnnualReportStats" \in api.calls
  /\ (pc = "done" /\ result.success) =>
       /\ result.data.peakDay.null <=> HighestDaily = 0
       /\ HighestDaily > 0 =>
            /\ result.data.peakDay.date = BusiestDay
            /\ result.data.peakDay.messageCount = HighestDaily
            /\ ~ExtrasGavePayload =>
                 /\ \A i \in ScanIndexes :
                      MapGet(MapGet(acc.dailyContactStats, BusiestDay, EmptyMap),
                             sessionIds[i + 1], 0) = RowsOnDay(i, BusiestDay)
                 /\ DOMAIN acc.dailyContactStats \subseteq {BusiestDay}
                 /\ result.data.peakDay.topFriendCount =
                      RowsOnDay(TopOnDay(BusiestDay), BusiestDay)
                 /\ result.data.peakDay.topFriend =
                      IF RowsOnDay(TopOnDay(BusiestDay), BusiestDay) = 0
                      THEN NoSession
                      ELSE sessionIds[TopOnDay(BusiestDay) + 1]

\* Full scan: the highest count comes second in the list, the second
\* session has more rows on that day than the first, and a row of another
\* day was read too.
C29_Witness ==
  /\ pc = "done" /\ result.success /\ ~ExtrasGavePayload
  /\ Len(d.daily) = 2 /\ d.daily[1].count < d.daily[2].count
  /\ Len(sessionIds) = 2
  /\ RowsOnDay(0, BusiestDay) < RowsOnDay(1, BusiestDay)
  /\ result.data.peakDay.topFriend = sessionIds[2]
  /\ \E k \in RowsBy("scan") :
       /\ log[k].row.create_time # 0
       /\ DayNumber(log[k].row.create_time) # BusiestDay

\* Two days share the highest count and the first of them is reported.
C29_WitnessTie ==
  /\ pc = "done" /\ result.success /\ ~ExtrasGavePayload
  /\ Len(d.daily) = 2 /\ d.daily[1].count = d.daily[2].count
  /\ result.data.peakDay.date = d.daily[1].day
  /\ RowsOnDay(0, BusiestDay) > 0

\* Fast path: the peak day still comes from the daily counts.
C29_WitnessFast ==
  /\ pc = "done" /\ result.success /\ ExtrasGavePayload
  /\ ~result.data.peakDay.null /\ result.data.peakDay.date = BusiestDay

\* No day has a count above zero and rows were scanned.
C29_WitnessNone ==
  /\ pc = "done" /\ result.success /\ ~ExtrasGavePayload
  /\ HighestDaily = 0 /\ Len(log) > 0 /\ result.data.peakDay.null

\* decode(t) of a text t handed to the decoder as a plain string.
DecodeAgain(t) == decodeMessageContent(t, <<>>)

\* The texts the decoder has returned into the report.
DecodedTexts ==
  IF kind = "dual" /\ result.returned /\ result.success
  THEN (IF result.data.firstChat.null THEN {}
        ELSE {result.data.firstChat.chat.content})
       \cup (IF result.data.yearFirstChat.null THEN {}
             ELSE {result.data.yearFirstChat.firstThreeMessages[k].content :
                     k \in DOMAIN result.data.yearFirstChat.firstThreeMessages})
  ELSE {}

(***************************************************************************)
(* C30.  As stated: decoding is idempotent; every text t the decoder has   *)
(* returned decodes to t again when it is handed to the decoder as a plain *)
(* string.                                                                 *)
(***************************************************************************)
C30_DecodeIsIdempotent ==
  \A t \in DecodedTexts : DecodeAgain(t) = t

\* The store holds "61626364", the hex form of "abcd"; the decoder returns
\* "abcd", which looks like hex itself and decodes to two other characters.
C30_Witness ==
  /\ kind = "dual" /\ pc = "done" /\ result.success
  /\ ~result.data.firstChat.null
  /\ dual.firstRows[1].message_content = TextHexOfAbcd
  /\ result.data.firstChat.chat.content = TextAbcd
  /\ DecodeAgain(TextAbcd) = <<171, 205>>

\* What the store answered to an invocation with locals f: the session
\* list, the bulk statistics, the extras, the cursors asked for and the
\* rows they delivered.
Answers(f) == <<f.sessionIds, f.d, f.extras, f.api.opened, f.log>>

HasReport(f) == f.pc = "done" /\ f.result.returned /\ f.result.success

\* The rows the dual scan of the running invocation has read.
DualScanRows == Cardinality(RowsBy("dual"))

(***************************************************************************)
(* C27.  Two generations on the same service object, one after the other   *)
(* or interleaved at their awaits, over the same store: an invocation      *)
(* starts with fresh accumulators whatever the other has done; at every    *)
(* moment its accumulators are those of the rows it has read itself; and   *)
(* two invocations that got the same answers from the store return the     *)
(* same report.                                                            *)
(***************************************************************************)
C27_FreshAccumulatorsPerGeneration ==
  /\ pc = "start" =>
       acc = InitAcc /\ scan = InitScan /\ cls = InitCls /\ dual = InitDual
  /\ (kind = "annual" /\ ~acc.useSqlExtras) =>
       /\ acc.heatmapData = Replayed.acc.heatmapData
       /\ acc.midnightStats = Replayed.acc.midnightStats
       /\ acc.conversationStarts = Replayed.acc.conversationStarts
       /\ acc.phraseCount = Replayed.acc.phraseCount
       /\ scan.processedMessages = Replayed.scan.processedMessages
  /\ kind = "dual" => dual.stats.totalMessages = DualScanRows
  /\ (HasReport(Locals) /\ other.pc # "none" /\ HasReport(other)
        /\ Answers(Locals) = Answers(other)) =>
       result.data = other.result.data

\* Both invocations of an annual report have returned, each after reading
\* the same row of the same sessions, and their reports are equal.
C27_Witness ==
  /\ kind = "annual" /\ other.pc # "none"
  /\ HasReport(Locals) /\ HasReport(other)
  /\ Len(log) > 0 /\ Answers(Locals) = Answers(other)
  /\ result.data = other.result.data

\* One invocation is in its scan with a row read, the other has not yet
\* read any row and stands between two batches.
C27_WitnessInterleaved ==
  /\ kind = "annual" /\ other.pc = "scanYield" /\ pc = "scanFetch"
  /\ other.log # <<>> /\ log = <<>>
  /\ other.acc # InitAcc /\ acc = InitAcc

\* The second invocation starts after the first has returned its report.
C27_WitnessSequential ==
  /\ pc = "start" /\ other.pc = "done"
  /\ other.result.returned /\ other.result.success /\ other.log # <<>>

\* The same for the dual report, interleaved.
C27_WitnessDual ==
  /\ kind = "dual" /\ other.pc # "none"
  /\ HasReport(Locals) /\ HasReport(other)
  /\ DualScanRows > 0 /\ Answers(Locals) = Answers(other)

\* The bytes a raw field stands for: its hex form, else its base64 form.
RawBytes(raw) ==
  IF looksLikeHex(raw) THEN HexBytes(raw)
  ELSE IF looksLikeBase64(raw) THEN Base64Bytes(raw) ELSE <<>>

\* Decoding of the field fails: it holds a zstd frame that does not
\* decompress.
DecodeFails(raw) ==
  /\ Len(RawBytes(raw)) >= 4
  /\ SubSeq(RawBytes(raw), 1, 4) = ZstdMagic
  /\ ~ZstdDecompress(RawBytes(raw)).ok

\* The text of a row as stated: the fallback field unless it decodes to
\* nothing, and then the primary field.
FallbackFirst(row) ==
  IF decodeMaybeCompressed(row.compress_content) # <<>>
  THEN decodeMaybeCompressed(row.compress_content)
  ELSE decodeMaybeCompressed(row.message_content)

\* The texts the annual scan counts as phrases, from the rows it has read.
PhrasesOfLog ==
  {Trim(FallbackFirst(log[k].row)) : k \in RowsBy("scan")}

(***************************************************************************)
(* C31.  The decoder never raises: a field whose decoding fails yields the *)
(* empty string, the fallback field is tried first and the primary field   *)
(* only when the fallback decodes to the empty string; a row whose         *)
(* decoding fails aborts neither its batch nor the scan: every row read is *)
(* processed.                                                              *)
(***************************************************************************)
C31_DecoderNeverAborts ==
  /\ \A k \in 1 .. Len(log) :
       LET row == log[k].row
       IN /\ DecodeFails(row.compress_content)
               => decodeMaybeCompressed(row.compress_content) = <<>>
          /\ DecodeFails(row.message_content)
               => decodeMaybeCompressed(row.message_content) = <<>>
  /\ (kind = "dual" /\ pc = "done" /\ result.success) =>
       /\ dual.stats.totalMessages = Cardinality(RowsBy("dual"))
       /\ \A k \in 1 .. Len(dual.firstRows) :
            result.data.firstChatMessages[k].content
              = FallbackFirst(dual.firstRows[k])
  /\ (kind = "annual" /\ ScannedAll) =>
       /\ SumHeatmap(acc.heatmapData) = Cardinality(RowsBy("scan"))
       /\ \A k \in 1 .. Len(acc.phraseCount) :
            acc.phraseCount[k].phrase \in PhrasesOfLog
       /\ \A t \in PhrasesOfLog :
            AnnualPhraseEligible(t)
              => \E k \in 1 .. Len(acc.phraseCount) : acc.phraseCount[k].phrase = t

\* The fallback field fails to decode and the primary field is a plain
\* text: the report carries the primary text.
C31_Witness ==
  /\ kind = "dual" /\ pc = "done" /\ result.success
  /\ Len(dual.firstRows) > 0
  /\ DecodeFails(dual.firstRows[1].compress_content)
  /\ dual.firstRows[1].message_content = TextHi
  /\ result.data.firstChat.chat.content = TextHi

\* Both fields decode: the fallback field wins.
C31_WitnessFallbackWins ==
  /\ kind = "dual" /\ pc = "done" /\ result.success
  /\ Len(dual.firstRows) > 0
  /\ dual.firstRows[1].compress_content = TextZstdOk
  /\ dual.firstRows[1].message_content = TextHi
  /\ result.data.firstChat.chat.content = TextOk

\* Both fields fail: the text is empty and the scan went on to a later row.
C31_WitnessBothFail ==
  /\ kind = "annual" /\ pc = "done" /\ result.success
  /\ Len(log) = 2
  /\ DecodeFails(log[1].row.compress_content)
  /\ DecodeFails(log[1].row.message_content)
  /\ FallbackFirst(log[1].row) = <<>>
  /\ SumHeatmap(acc.heatmapData) = 2
  /\ \E k \in 1 .. Len(acc.phraseCount) : acc.phraseCount[k].phrase = TextOk

IsFirstPhase(e) == e.by = "first"

IsYearPhase(e) == e.by = "year"

\* The rows the cursor of a getFirstMessages call has delivered, in order.
DeliveredFirst == [k \in 1 .. Len(SelectSeq(log, IsFirstPhase)) |->
                     SelectSeq(log, IsFirstPhase)[k].row]

DeliveredYear == [k \in 1 .. Len(SelectSeq(log, IsYearPhase)) |->
                    SelectSeq(log, IsYearPhase)[k].row]

\* The first-messages calls are over.
FirstCallsOver ==
  kind = "dual" /\ pc \in {"count", "dualOpen", "dualFetch", "dualClose",
                           "return", "done"}
  /\ (pc \in {"return", "done"} => result.success)

\* The cursor of the running getFirstMessages call has told that it holds
\* no further row.
Exhausted == cursor.fetches > 0 /\ ~cursor.hasMore

\* What holds of the first-chat data whatever the store answers: the rows
\* returned are the first min(limit, delivered) rows the cursor delivered,
\* the loop fetches only below the limit, and the report's first chats are
\* the first of these rows, or null.
FirstChatOfDelivered ==
  /\ (kind = "dual" /\ pc = "gfFetch") =>
       /\ Len(dual.rows) < FIRST_LIMIT
       /\ cursor.hasMore
  /\ (kind = "dual" /\ pc = "gfClose") =>
       dual.rows = Slice(IF dual.phase = "first" THEN DeliveredFirst
                         ELSE DeliveredYear, FIRST_LIMIT)
  /\ FirstCallsOver =>
       /\ dual.firstRows = Slice(DeliveredFirst, FIRST_LIMIT)
       /\ dual.firstYearRows = Slice(DeliveredYear, FIRST_LIMIT)
       /\ dual.isAllTime => DeliveredYear = <<>>
       /\ \A k \in 1 .. Len(DeliveredFirst) :
            dual.firstRows[1].create_time <= DeliveredFirst[k].create_time
       /\ \A k \in 1 .. Len(DeliveredYear) :
            dual.firstYearRows[1].create_time <= DeliveredYear[k].create_time
  /\ (kind = "dual" /\ pc = "done" /\ result.success) =>
       /\ Len(result.data.firstChatMessages) <= FIRST_LIMIT
       /\ result.data.firstChatMessages
            = [k \in 1 .. Len(dual.firstRows) |-> DualMessage(dual.firstRows[k])]
       /\ result.data.firstChat
            = IF DeliveredFirst = <<>> THEN NullField
              ELSE [null |-> FALSE, chat |-> DualMessage(DeliveredFirst[1])]
       /\ result.data.yearFirstChat.null = (DeliveredYear = <<>>)
       /\ ~result.data.yearFirstChat.null =>
            /\ result.data.yearFirstChat.chat = DualMessage(DeliveredYear[1])
            /\ Len(result.data.yearFirstChat.firstThreeMessages) <= FIRST_LIMIT
            /\ result.data.yearFirstChat.firstThreeMessages
                 = [k \in 1 .. Len(dual.firstYearRows) |->
                      DualMessage(dual.firstYearRows[k])]
            /\ Window(year) \in api.windows

\* As stated: getFirstMessages returns exactly the first min(limit,
\* available) rows, so it returns fewer than the limit only when its cursor
\* holds no further row.
C32_FirstRowsAreExact ==
  /\ FirstChatOfDelivered
  /\ (kind = "dual" /\ pc = "gfClose" /\ Len(dual.rows) < FIRST_LIMIT)
       => Exhausted

(***************************************************************************)
(* C32.  getFirstMessages returns the first min(limit, delivered) rows of  *)
(* those its cursor delivered, in the cursor's ascending order, and        *)
(* fetches on until the limit is reached, the cursor holds no further row  *)
(* or a fetch fails; it returns fewer than the limit with a cursor that    *)
(* holds more only after a fetch that failed.  firstChat is the first of   *)
(* the at most three all-time first messages and null when there is none,  *)
(* the year-scoped first chat is the first of the at most three earliest   *)
(* messages delivered for the window of the selected year.                 *)
(***************************************************************************)
C32_FirstRowsOfDelivered ==
  /\ []FirstChatOfDelivered
  /\ [][(kind = "dual" /\ pc = "gfFetch" /\ pc' = "gfClose"
         /\ Len(dual'.rows) < FIRST_LIMIT /\ ~Exhausted')
        => (cursor' = cursor /\ log' = log)]_vars

\* The cursor delivered four rows in two batches; the first three were
\* returned, the first of them is the first chat.
C32_Witness ==
  /\ kind = "dual" /\ pc = "done" /\ result.success
  /\ Len(DeliveredFirst) = 4
  /\ DeliveredFirst[1].create_time < DeliveredFirst[3].create_time
  /\ Len(result.data.firstChatMessages) = 3
  /\ result.data.firstChat.chat.createTime = DeliveredFirst[1].create_time * 1000

\* The year-scoped call returned rows of its own.
C32_WitnessYear ==
  /\ kind = "dual" /\ pc = "done" /\ result.success
  /\ Len(DeliveredFirst) = 2 /\ Len(DeliveredYear) = 2
  /\ ~result.data.yearFirstChat.null
  /\ Len(result.data.yearFirstChat.firstThreeMessages) = 2

\* A fetch failed after a batch of one row that was not the last: one row
\* is returned although the cursor holds more.
C32_WitnessFailedFetch ==
  /\ kind = "dual" /\ pc = "gfClose"
  /\ cursor.fetches = 1 /\ cursor.hasMore /\ Len(dual.rows) = 1

\* The extras call has been answered.
ExtrasAnswered == kind = "annual" /\ extras.called

\* The five results as the payload alone gives them.
FromPayload == ApplyExtras(InitAcc, extras.data, PeakDayKey(d))

(***************************************************************************)
(* C33.  The full scan runs if and only if the extras call did not answer  *)
(* success together with a payload (a failure, and also a success without  *)
(* data).  In one run the heatmap, midnight, conversation, response and    *)
(* phrase results are written by one of the two paths only: after a        *)
(* payload they are those of the payload and no row was fed to them,       *)
(* otherwise they are those of the rows read by the full scan and nothing  *)
(* of a payload is in them.                                                *)
(***************************************************************************)
C33_ExactlyOnePathWrites ==
  /\ (kind = "annual" /\ pc \in ScanPcs) => (extras.called /\ ~ExtrasGavePayload)
  /\ (kind = "annual" /\ \E k \in 1 .. Len(log) : log[k].by = "scan")
       => (extras.called /\ ~ExtrasGavePayload)
  /\ (ExtrasAnswered /\ ExtrasGavePayload) =>
       /\ acc.useSqlExtras
       /\ pc \notin ScanPcs /\ scan = InitScan
       /\ \A k \in 1 .. Len(log) : log[k].by # "scan"
       /\ acc.heatmapData = FromPayload.heatmapData
       /\ acc.midnightStats = FromPayload.midnightStats
       /\ acc.conversationStarts = FromPayload.conversationStarts
       /\ acc.responseStatsFromSql = FromPayload.responseStatsFromSql
       /\ acc.topPhrasesFromSql = FromPayload.topPhrasesFromSql
       /\ acc.responseTimeStats = InitAcc.responseTimeStats
       /\ acc.phraseCount = InitAcc.phraseCount
  /\ (ExtrasAnswered /\ ~ExtrasGavePayload) =>
       /\ ~acc.useSqlExtras
       /\ pc \in ScanPcs \cup {"contacts", "done"}
       /\ pc \in {"contacts", "done"} => api.opened = sessionIds
       /\ \A k \in 1 .. Len(log) : log[k].by = "scan"
       /\ acc.heatmapData = Replayed.acc.heatmapData
       /\ acc.midnightStats = Replayed.acc.midnightStats
       /\ acc.conversationStarts = Replayed.acc.conversationStarts
       /\ acc.responseTimeStats = Replayed.acc.responseTimeStats
       /\ acc.phraseCount = Replayed.acc.phraseCount
       /\ acc.responseStatsFromSql = InitAcc.responseStatsFromSql
       /\ acc.topPhrasesFromSql = InitAcc.topPhrasesFromSql

\* Success without data: the full scan ran over both sessions and read rows.
C33_Witness ==
  /\ kind = "annual" /\ pc = "done" /\ result.success
  /\ extras = ExtrasNoData
  /\ Len(sessionIds) = 2 /\ api.opened = sessionIds
  /\ \E k \in 1 .. Len(log) : log[k].by = "scan"
  /\ SumHeatmap(acc.heatmapData) > 0

\* A payload: its results stand and no row was fed to the full scan,
\* although the streak-only scan read rows.
C33_WitnessPayload ==
  /\ kind = "annual" /\ pc = "done" /\ result.success
  /\ ExtrasGavePayload /\ extras.data = PartialPayload
  /\ Len(log) > 0

\* A failure of the extras call: the full scan ran.
C33_WitnessFailure ==
  /\ kind = "annual" /\ pc = "done" /\ result.success
  /\ extras = ExtrasFailed
  /\ \E k \in 1 .. Len(log) : log[k].by = "scan"

IsPrefix(p, q) == Len(p) <= Len(q) /\ p = SubSeq(q, 1, Len(p))

\* The request has returned (the dual worker may still have to post).
CallReturned == pc \in {"return", "done"} /\ result.returned

(***************************************************************************)
(* C34.  Every message cursor that was opened successfully (full scan,     *)
(* streak-only scan, getEdgeMessageTime, getFirstMessages, dual scan) is   *)
(* closed exactly once before the call returns, also when a batch fetch    *)
(* fails or row processing throws; a cursor that failed to open is never   *)
(* closed.  With handles numbering the open calls: the handles closed are  *)
(* at every moment the handles given, in order and once each, but for the  *)
(* one cursor that is live; at the return they are all the handles given.  *)
(***************************************************************************)
C34_CursorsClosedExactlyOnce ==
  /\ IsPrefix(api.shut, api.given)
  /\ Len(api.given) = Len(api.shut) + api.live
  /\ api.live \in {0, 1}
  /\ \A j, k \in 1 .. Len(api.given) : j < k => api.given[j] < api.given[k]
  /\ \A k \in 1 .. Len(api.given) : api.given[k] \in 1 .. Len(api.opened)
  /\ api.live = 1 =>
       /\ cursor # NoCursor
       /\ cursor.handle = api.given[Len(api.given)]
       /\ ~CallReturned
  /\ api.live = 0 => cursor = NoCursor
  /\ CallReturned => api.shut = api.given

\* Row processing threw in the second session of the full scan: both
\* cursors given are closed, the call has returned the failure.
C34_Witness ==
  /\ kind = "annual" /\ pc = "done"
  /\ ~result.success /\ Has(result, "error") /\ result.error = "thrown"
  /\ api.given = <<1, 2>> /\ api.shut = <<1, 2>>
  /\ \A k \in 1 .. Len(log) : log[k].by = "scan"

\* An open failed and was never closed; the next cursor was closed.
C34_WitnessFailedOpen ==
  /\ kind = "annual" /\ pc = "done" /\ result.success
  /\ Len(api.opened) = 2 /\ api.given = <<2>> /\ api.shut = <<2>>

\* getEdgeMessageTime: four cursors for two sessions, one fetch threw.
C34_WitnessEdge ==
  /\ kind = "years" /\ pc = "done"
  /\ ~result.success /\ Has(result, "error") /\ result.error = "thrown"
  /\ api.given = <<1, 2, 3, 4>> /\ api.shut = api.given

\* getAvailableYears returned the years of the edge messages.
C34_WitnessYears ==
  /\ kind = "years" /\ pc = "done" /\ result.success
  /\ Len(api.opened) = 2 /\ api.shut = <<1, 2>>
  /\ result.data = <<2025, 2024, 2023>>

\* The dual scan: a fetch failed after a batch, the cursor was closed once.
C34_WitnessDual ==
  /\ kind = "dual" /\ pc = "done" /\ result.success
  /\ Len(api.given) = 3 /\ api.shut = api.given
  /\ \E k \in 1 .. Len(log) : log[k].by = "dual"

\* Row processing threw in getFirstMessages.
C34_WitnessFirst ==
  /\ kind = "dual" /\ pc = "done" /\ ~result.success
  /\ Has(result, "error") /\ result.error = "thrown"
  /\ Len(api.given) = 1 /\ api.shut = api.given

\* The extras call gave a payload whose streak is missing or lacks a valid
\* start or end date.
PayloadWithoutDatedStreak ==
  kind = "annual" /\ ExtrasGavePayload /\ ~PayloadStreakValid(extras.data)

\* The longest streak as the streak-only scan found it.
StreakOfScan ==
  [ null |-> FALSE, friendName |-> cls.bestSessionId, days |-> cls.bestDays,
    startDate |-> formatDateYmd(cls.bestStart),
    endDate |-> formatDateYmd(cls.bestEnd) ]

(***************************************************************************)
(* C35.  As stated: when the extras call succeeds with a payload that      *)
(* carries no streak, or a streak without valid start and end dates, the   *)
(* streak-only scan runs over every session, and the report's longest      *)
(* streak is the result of that scan whenever the scan found at least one  *)
(* day.                                                                    *)
(***************************************************************************)
C35_StreakOfScanIsReported ==
  (PayloadWithoutDatedStreak /\ pc = "done" /\ result.success) =>
    /\ api.opened = sessionIds
    /\ \A k \in 1 .. Len(log) : log[k].by = "cls"
    /\ cls.bestDays >= 1 => result.data.longestStreak = StreakOfScan

\* The payload names a streak of 2 days without dates; the scan found a
\* streak of 1 day, which is not longer: the report has no longest streak.
C35_Witness ==
  /\ PayloadWithoutDatedStreak /\ pc = "done" /\ result.success
  /\ extras.data = PartialPayload
  /\ cls.bestDays = 1 /\ cls.bestSessionId # NoSession
  /\ acc.longestStreakDays = 2 /\ acc.longestStreakStart = Null
  /\ result.data.longestStreak.null

\* A payload without any streak: the scan's streak is reported.
C35_WitnessNoStreak ==
  /\ PayloadWithoutDatedStreak /\ pc = "done" /\ result.success
  /\ extras.data = EmptyPayload
  /\ cls.bestDays = 1
  /\ result.data.longestStreak = StreakOfScan

\* The adjacent pairs of rows, named by their later row, whose gap exceeds
\* 3600 s.
LatePairs(rows) ==
  {k \in 2 .. Len(rows) :
     rows[k].create_time - rows[k - 1].create_time > 3600}

\* The rows that give a response sample: self answers the peer within the
\* running conversation, later than the peer's row.
SampleRows(rows) ==
  {k \in 2 .. Len(rows) :
     /\ k \notin LatePairs(rows)
     /\ rows[k].is_send /\ ~rows[k - 1].is_send
     /\ rows[k].create_time - rows[k - 1].create_time > 0
     /\ rows[k].create_time - rows[k - 1].create_time < 86400}

\* The sessions of which the full scan has read a row with a timestamp.
SessionsWithRows ==
  {i \in 0 .. Len(sessionIds) - 1 : TimedRows(log, "scan", i) # <<>>}

ConversationsOfAll ==
  SumSeq([i \in 1 .. Len(sessionIds) |->
            IF i - 1 \in SessionsWithRows
            THEN 1 + Cardinality(LatePairs(TimedRows(log, "scan", i - 1)))
            ELSE 0])

(***************************************************************************)
(* C36.  After the full scan of a session with n >= 1 rows with valid      *)
(* timestamps in ascending order, initiated + received of that session is  *)
(* 1 plus the number of adjacent row pairs whose gap exceeds 3600 s; every *)
(* row contributes to at most one of a conversation start and a response   *)
(* sample: the samples are those of rows that start nothing, the starts    *)
(* and the samples together are at most n.  The report's initiated and     *)
(* received chats add up to the conversations of all sessions.             *)
(***************************************************************************)
C36_ConversationsPartitionRows ==
  (kind = "annual" /\ ~acc.useSqlExtras) =>
    /\ \A i \in SessionsWithRows :
         LET rows == TimedRows(log, "scan", i)
             sid == sessionIds[i + 1]
             stats == acc.conversationStarts[sid]
             samples == MapGet(acc.responseTimeStats, sid, <<>>)
         IN /\ stats.initiated + stats.received = 1 + Cardinality(LatePairs(rows))
            /\ Len(samples) = Cardinality(SampleRows(rows))
            /\ SampleRows(rows) \cap ({1} \cup LatePairs(rows)) = {}
            /\ stats.initiated + stats.received + Len(samples) <= Len(rows)
    /\ (pc = "done" /\ result.success) =>
         IF ConversationsOfAll = 0
         THEN result.data.socialInitiative.null
         ELSE /\ ~result.data.socialInitiative.null
              /\ result.data.socialInitiative.initiatedChats
                   + result.data.socialInitiative.receivedChats
                   = ConversationsOfAll

\* Three rows of one session: a reply within the hour, then a row more
\* than an hour later: two conversations and one sample.
C36_Witness ==
  /\ kind = "annual" /\ pc = "done" /\ result.success
  /\ Len(log) = 3 /\ \A k \in 1 .. 3 : log[k].i = 0
  /\ ~log[1].row.is_send /\ log[1].row.create_time = T0
  /\ log[2].row.is_send /\ log[2].row.create_time = T1
  /\ log[3].row.create_time = T2
  /\ acc.conversationStarts[1].initiated + acc.conversationStarts[1].received = 2
  /\ Len(acc.responseTimeStats[1]) = 1
  /\ result.data.socialInitiative.initiatedChats
       + result.data.socialInitiative.receivedChats = 2

\* Rows in two sessions: each session has its own first conversation.
C36_WitnessTwoSessions ==
  /\ kind = "annual" /\ pc = "done" /\ result.success
  /\ SessionsWithRows = {0, 1}
  /\ ConversationsOfAll = 2
  /\ result.data.socialInitiative.initiatedChats
       + result.data.socialInitiative.receivedChats = 2

(***************************************************************************)
(* VoiceTranscribeService.downloadModel (sns.ts 1127-1206).                *)
(*                                                                         *)
(* voice.entry is downloadTasks.get('sensevoice'): 0 when the map has no   *)
(* entry, otherwise the number of the task it holds.  voice.tasks are the  *)
(* tasks the async arrow function was called for; a task is at the await   *)
(* of the model file, at the await of the tokens file, or settled.         *)
(* voice.files are the model files on disk.  voice.calls is history: what  *)
(* every call of downloadModel met and what it returned.                   *)
(***************************************************************************)
MaxCalls == 4

Settled(task) == task.state \in {"done", "failed"}

\* One call of downloadModel.  The async arrow function runs, within the
\* call, up to its first await: when mkdirSync or the progress callback
\* throws there, the catch block and the finally block with its
\* downloadTasks.delete run as well, before the downloadTasks.set of the
\* caller.
DownloadModel ==
  /\ kind = "voice"
  /\ Len(voice.calls) < MaxCalls
  /\ LET pending == voice.entry
     IN IF pending # 0
        THEN voice' = [voice EXCEPT
                         !.calls = Append(@, [got |-> pending, met |-> pending,
                                              settled |->
                                                Settled(voice.tasks[pending])])]
        ELSE \E thrown \in BOOLEAN :
               LET task == Len(voice.tasks) + 1
                   afterTry ==
                     IF thrown
                     THEN [voice EXCEPT
                             !.tasks = Append(@, [state |-> "failed",
                                                  awaited |-> 0]),
                             !.files = {},
                             !.entry = 0]
                     ELSE [voice EXCEPT
                             !.tasks = Append(@, [state |-> "model",
                                                  awaited |-> 1])]
               IN voice' = [afterTry EXCEPT
                              !.entry = task,
                              !.calls = Append(@, [got |-> task, met |-> 0,
                                                   settled |-> FALSE])]
  /\ UNCHANGED <<reports, transcribe, timeline, ranges>>

\* The downloadToFile a task awaits settles: after the model file the
\* tokens file follows, after the tokens file the task returns; a
\* rejection removes both files.  The finally block deletes the map entry
\* when the task settles.
DownloadToFileSettles ==
  /\ kind = "voice"
  /\ \E task \in 1 .. Len(voice.tasks), ok \in BOOLEAN :
       LET state == voice.tasks[task].state
       IN /\ ~Settled(voice.tasks[task])
          /\ voice' =
               IF ~ok
               THEN [voice EXCEPT !.tasks[task].state = "failed",
                                  !.files = {}, !.entry = 0]
               ELSE IF state = "model"
               THEN [voice EXCEPT !.tasks[task].state = "tokens",
                                  !.tasks[task].awaited = 2,
                                  !.files = @ \cup {"model"}]
               ELSE [voice EXCEPT !.tasks[task].state = "done",
                                  !.files = @ \cup {"tokens"}, !.entry = 0]
  /\ UNCHANGED <<reports, transcribe, timeline, ranges>>

NextVoice == DownloadModel \/ DownloadToFileSettles

VoiceInit ==
  /\ InitRun(CursorStore, {"voice"}, {2023}) /\ other = NoOther
  /\ voice \in { [NoVoice EXCEPT !.files = f] : f \in SUBSET {"model", "tokens"} }
  /\ transcribe = NoTranscribe /\ timeline = NoTimeline /\ ranges = NoRanges

SpecVoice == VoiceInit /\ [][NextVoice]_vars

InFlight == { t \in 1 .. Len(voice.tasks) : ~Settled(voice.tasks[t]) }

\* C37: at most one download task is in flight; a call of downloadModel
\* that meets a task in flight returns that task; the downloadTasks map
\* holds no settled task, whether it settled with success or with failure,
\* after an await or before the first one; so a call that finds every
\* earlier task settled starts a task of its own.
C37_SettledTaskLeavesMap ==
  /\ Cardinality(InFlight) <= 1
  /\ voice.entry # 0 => voice.entry \in InFlight
  /\ \A c \in 1 .. Len(voice.calls) :
       LET call == voice.calls[c]
       IN /\ call.met # 0 => call.got = call.met
          /\ ~call.settled
          /\ call.met = 0 => \A e \in 1 .. c - 1 : voice.calls[e].got < call.got

\* A task failed before its first await, the map still holds it, and a
\* later call got that settled task back.
C37_Witness ==
  /\ voice.entry # 0
  /\ voice.tasks[voice.entry].state = "failed"
  /\ voice.tasks[voice.entry].awaited = 0
  /\ \E c \in 1 .. Len(voice.calls) :
       voice.calls[c].settled /\ voice.calls[c].got = voice.entry

\* Without a failure before the first await the claim holds: a task that
\* settled at an await has left the map, and calls in flight share it.
C37_HoldsAfterAwait ==
  (\A t \in 1 .. Len(voice.tasks) : voice.tasks[t].awaited > 0)
    => C37_SettledTaskLeavesMap

\* Two calls shared a task in flight, it succeeded, and a later call
\* started a new task.
C37_WitnessShared ==
  /\ Len(voice.tasks) = 2
  /\ voice.tasks[1].state = "done"
  /\ \E c \in 2 .. Len(voice.calls) : voice.calls[c].met = 1

(***************************************************************************)
(* transcribeWavBuffer (sns.ts 1211-1272) and its worker                   *)
(* (transcribeWorker.ts).                                                  *)
(*                                                                         *)
(* transcribe.pc is the position of the caller, transcribe.worker the      *)
(* position of the worker thread: "load" before run is called, "loop" in   *)
(* the VAD path, "exited" after run has returned, "crashed" when the       *)
(* thread ended with an exception nobody caught.  chunks is the length of  *)
(* the samples in chunks of 1600, offset the number of chunks fed to the   *)
(* VAD, budget the number of speech segments the audio still holds.  sent  *)
(* are the messages posted to parentPort, handled the number of them the   *)
(* 'message' listener has seen, partials the texts handed to onPartial,    *)
(* resolveCalls the values resolve was called with, promise the value the  *)
(* promise settled with (<<>> while pending), events the listeners of      *)
(* 'error' and 'exit' that have run.                                       *)
(***************************************************************************)
MaxChunks == 2

MaxSegments == 3

\* Texts the recogniser returns for a segment: "", " ", "a", " b".
SegmentTexts == { <<>>, <<32>>, <<97>>, <<32, 98>> }

SegmentSeqs(n) == UNION { [1 .. k -> SegmentTexts] : k \in 0 .. n }

Message(type, text) == [type |-> type, text |-> text]

Outcome(success, transcript, error) ==
  [success |-> success, transcript |-> transcript, error |-> error]

\* A faulty variant of Resolve: the last call of resolve settles the promise.
ResolveLastWins(t, outcome) ==
  [t EXCEPT !.resolveCalls = Append(@, outcome), !.promise = <<outcome>>]

\* resolve of the promise of line 1216: the first call settles the promise,
\* later calls change nothing.
Resolve(t, outcome) ==
  [t EXCEPT !.resolveCalls = Append(@, outcome),
            !.promise = IF @ = <<>> THEN <<outcome>> ELSE @]

\* Line 134 and line 158.
Accumulate(accumulatedText, text) ==
  accumulatedText \o (IF accumulatedText # <<>> THEN <<32>> ELSE <<>>) \o text

\* A faulty variant of LoopSegments: the partial carries the text of the
\* segment alone.
RECURSIVE LoopSegmentsOwnText(_, _, _)
LoopSegmentsOwnText(t, segs, k) ==
  IF k > Len(segs) THEN t
  ELSE LET text == Trim(segs[k])
       IN IF segs[k] # <<>> /\ Len(text) > 0
          THEN LoopSegmentsOwnText(
                 [t EXCEPT !.accumulatedText = Accumulate(@, text),
                           !.sent = Append(@, Message("partial", text))],
                 segs, k + 1)
          ELSE LoopSegmentsOwnText(t, segs, k + 1)

\* Lines 120-141: the segments the VAD holds after a chunk, from segs[k] on.
RECURSIVE LoopSegments(_, _, _)
LoopSegments(t, segs, k) ==
  IF k > Len(segs) THEN t
  ELSE LET text == Trim(segs[k])
       IN IF segs[k] # <<>> /\ Len(text) > 0
          THEN LET accumulatedText == Accumulate(t.accumulatedText, text)
               IN LoopSegments(
                    [t EXCEPT !.accumulatedText = accumulatedText,
                              !.sent = Append(@, Message("partial",
                                                         accumulatedText))],
                    segs, k + 1)
          ELSE LoopSegments(t, segs, k + 1)

\* Lines 150-163: the segments the VAD holds after flush.
RECURSIVE FlushSegments(_, _, _)
FlushSegments(t, segs, k) ==
  IF k > Len(segs) THEN t
  ELSE IF segs[k] # <<>>
  THEN LET accumulatedText == Accumulate(t.accumulatedText, Trim(segs[k]))
       IN FlushSegments(
            [t EXCEPT !.accumulatedText = accumulatedText,
                      !.sent = Append(@, Message("partial", accumulatedText))],
            segs, k + 1)
  ELSE FlushSegments(t, segs, k + 1)

\* The catch block of lines 168-171, then the return of run.
PostError(t) ==
  [t EXCEPT !.sent = Append(@, Message("error", <<>>)), !.worker = "exited"]

\* Lines 1211-1251 and 1268-1270: the call, up to the start of the worker.
TranscribeWavBuffer ==
  /\ kind = "transcribe" /\ transcribe.pc = "call"
  /\ \E filesExist, started \in BOOLEAN :
       transcribe' =
         IF ~filesExist
         THEN [Resolve(transcribe, Outcome(FALSE, <<>>, "noModel"))
                 EXCEPT !.pc = "returned"]
         ELSE IF ~started
         THEN [Resolve(transcribe, Outcome(FALSE, <<>>, "thrown"))
                 EXCEPT !.pc = "returned"]
         ELSE [transcribe EXCEPT !.pc = "returned", !.worker = "load"]
  /\ UNCHANGED <<reports, voice, timeline, ranges>>

\* The worker script cannot be run: the thread ends with an exception.
WorkerCrash ==
  /\ kind = "transcribe" /\ transcribe.worker = "load"
  /\ transcribe' = [transcribe EXCEPT !.worker = "crashed"]
  /\ UNCHANGED <<reports, voice, timeline, ranges>>

\* transcribeWorker.ts lines 11-111: the engine is loaded, the recogniser
\* built; without a VAD model the whole audio is decoded at once.
WorkerRun ==
  /\ kind = "transcribe" /\ transcribe.worker = "load"
  /\ ~transcribe.terminated
  /\ \/ transcribe' = PostError(transcribe)
     \/ \E text \in SegmentTexts :
          transcribe' = [transcribe EXCEPT
                           !.sent = Append(@, Message("final", text)),
                           !.worker = "exited", !.vad = FALSE]
     \/ transcribe' = [transcribe EXCEPT !.worker = "loop"]
  /\ UNCHANGED <<reports, voice, timeline, ranges>>

\* Lines 113-146: one chunk, up to the await of setImmediate.  An exception
\* on the way ends run through the catch block.
WorkerChunk ==
  /\ kind = "transcribe" /\ transcribe.worker = "loop"
  /\ ~transcribe.terminated
  /\ transcribe.offset < transcribe.chunks
  /\ \E segs \in SegmentSeqs(transcribe.budget), thrown \in BOOLEAN :
       LET t == LoopSegments(transcribe, segs, 1)
       IN transcribe' =
            IF thrown
            THEN PostError([t EXCEPT !.budget = @ - Len(segs)])
            ELSE [t EXCEPT !.budget = @ - Len(segs), !.offset = @ + 1]
  /\ UNCHANGED <<reports, voice, timeline, ranges>>

\* Lines 148-166: the rest of the VAD buffer and the final message.
WorkerFlush ==
  /\ kind = "transcribe" /\ transcribe.worker = "loop"
  /\ ~transcribe.terminated
  /\ transcribe.offset >= transcribe.chunks
  /\ \E segs \in SegmentSeqs(transcribe.budget), thrown \in BOOLEAN :
       LET t == FlushSegments(transcribe, segs, 1)
       IN transcribe' =
            IF thrown
            THEN PostError([t EXCEPT !.budget = @ - Len(segs)])
            ELSE [t EXCEPT !.budget = @ - Len(segs),
                           !.sent = Append(@, Message("final",
                                                      t.accumulatedText)),
                           !.worker = "exited"]
  /\ UNCHANGED <<reports, voice, timeline, ranges>>

\* Lines 1249-1261: the 'message' listener takes the next message.
OnMessage ==
  /\ kind = "transcribe"
  /\ transcribe.handled < Len(transcribe.sent)
  /\ LET msg == transcribe.sent[transcribe.handled + 1]
         t == [transcribe EXCEPT !.handled = @ + 1]
     IN transcribe' =
          IF msg.type = "partial"
          THEN [t EXCEPT !.partials = Append(@, msg.text)]
          ELSE IF msg.type = "final"
          THEN [Resolve(t, Outcome(TRUE, msg.text, "none"))
                  EXCEPT !.terminated = TRUE]
          ELSE [Resolve(t, Outcome(FALSE, <<>>, "worker"))
                  EXCEPT !.terminated = TRUE]
  /\ UNCHANGED <<reports, voice, timeline, ranges>>

\* Line 1263: the 'error' listener.
OnError ==
  /\ kind = "transcribe" /\ transcribe.worker = "crashed"
  /\ "error" \notin transcribe.events
  /\ transcribe' = [Resolve(transcribe, Outcome(FALSE, <<>>, "uncaught"))
                      EXCEPT !.events = @ \cup {"error"}]
  /\ UNCHANGED <<reports, voice, timeline, ranges>>

\* Lines 1264-1266: the 'exit' listener.  The code is 0 when run has
\* returned by itself, 1 after terminate or an uncaught exception.
OnExit ==
  /\ kind = "transcribe"
  /\ transcribe.worker \in {"exited", "crashed"} \/ transcribe.terminated
  /\ transcribe.worker = "crashed" => "error" \in transcribe.events
  /\ "exit" \notin transcribe.events
  /\ \E code \in {0, 1} :
       /\ code = 0 => transcribe.worker = "exited"
       /\ code = 1 => transcribe.worker = "crashed" \/ transcribe.terminated
       /\ transcribe' =
            [ (IF code # 0
               THEN Resolve(transcribe, Outcome(FALSE, <<>>, "exit"))
               ELSE transcribe)
              EXCEPT !.events = @ \cup {"exit"},
                     !.worker = IF @ = "crashed" THEN @ ELSE "exited" ]
  /\ UNCHANGED <<reports, voice, timeline, ranges>>

NextTranscribe ==
  \/ TranscribeWavBuffer \/ WorkerCrash \/ WorkerRun \/ WorkerChunk
  \/ WorkerFlush \/ OnMessage \/ OnError \/ OnExit

TranscribeInit ==
  /\ InitRun(CursorStore, {"transcribe"}, {2023}) /\ other = NoOther
  /\ transcribe \in { [NoTranscribe EXCEPT !.pc = "call", !.chunks = n,
                                           !.budget = MaxSegments] :
                       n \in 0 .. MaxChunks }
  /\ voice = NoVoice /\ timeline = NoTimeline /\ ranges = NoRanges

\* The event loops of both threads run every callback that is due.
SpecTranscribe ==
  TranscribeInit /\ [][NextTranscribe]_vars /\ WF_vars(NextTranscribe)

IsTerminal(msg) == msg.type \in {"final", "error"}

TerminalsSent ==
  { i \in 1 .. Len(transcribe.sent) : IsTerminal(transcribe.sent[i]) }

PartialsSent ==
  { i \in 1 .. Len(transcribe.sent) : transcribe.sent[i].type = "partial" }

\* The outcome the 'message' listener resolves with for a terminal message.
OutcomeOf(msg) ==
  IF msg.type = "final"
  THEN Outcome(TRUE, msg.text, "none") ELSE Outcome(FALSE, <<>>, "worker")

MessagesInOrder ==
  /\ Cardinality(TerminalsSent) <= 1
  /\ \A i \in TerminalsSent : i = Len(transcribe.sent)
  /\ transcribe.worker = "exited" => Cardinality(TerminalsSent) = 1
  /\ \A i \in PartialsSent, j \in PartialsSent :
       i < j => IsPrefix(transcribe.sent[i].text, transcribe.sent[j].text)
  /\ \A i \in TerminalsSent :
       (transcribe.sent[i].type = "final" /\ transcribe.vad)
         => transcribe.sent[i].text =
              IF i = 1 THEN <<>> ELSE transcribe.sent[i - 1].text

ResolvedOnce ==
  /\ Len(transcribe.promise) <= 1
  /\ transcribe.resolveCalls # <<>>
       => transcribe.promise = <<transcribe.resolveCalls[1]>>
  /\ \A i \in TerminalsSent :
       transcribe.handled >= i
         => transcribe.promise = <<OutcomeOf(transcribe.sent[i])>>
  /\ transcribe.partials =
       [i \in 1 .. Len(transcribe.partials) |-> transcribe.sent[i].text]

\* C38: the worker posts partial messages and then one terminal message,
\* 'final' or 'error', and nothing after it; once run has been called the
\* terminal message does get posted; the text of a partial message starts
\* with the text of every earlier one; the text of the final message of
\* the VAD path is that of the last partial message, or empty without one;
\* the promise of transcribeWavBuffer settles, once, with the value of the
\* first call of resolve, which is the outcome of the terminal message
\* when the listener has seen one.
C38_PartialsThenOneTerminal ==
  /\ [](MessagesInOrder /\ ResolvedOnce)
  /\ [][transcribe.promise # <<>> => transcribe'.promise = transcribe.promise]_vars
  /\ (transcribe.worker = "loop") ~> (Cardinality(TerminalsSent) = 1)
  /\ <>(transcribe.promise # <<>>)

\* Two partial messages and the final message were posted and handled; the
\* promise holds the final text, and the 'exit' listener's later call of
\* resolve after terminate changed nothing.
C38_Witness ==
  /\ Cardinality(PartialsSent) = 2
  /\ transcribe.handled = 3
  /\ transcribe.sent[3].type = "final"
  /\ transcribe.sent[3].text = <<97, 32, 98>>
  /\ Len(transcribe.resolveCalls) = 2
  /\ transcribe.promise = <<Outcome(TRUE, <<97, 32, 98>>, "none")>>

\* A partial message, then an exception: the terminal message is 'error'.
C38_WitnessError ==
  /\ Len(transcribe.sent) = 2
  /\ transcribe.sent[1].type = "partial"
  /\ transcribe.sent[2].type = "error"
  /\ transcribe.handled = 2
  /\ transcribe.promise = <<Outcome(FALSE, <<>>, "worker")>>

\* The VAD path without any speech: the final text is empty.
C38_WitnessSilence ==
  /\ transcribe.vad /\ transcribe.chunks = MaxChunks
  /\ transcribe.sent = <<Message("final", <<>>)>>
  /\ transcribe.promise = <<Outcome(TRUE, <<>>, "none")>>

(***************************************************************************)
(* SnsService.exportTimeline, the loading of the pages (part_002 292-320). *)
(*                                                                         *)
(* Posts that match the filters differ, for the page loop, by their        *)
(* createTime only: timeline.posts[t] is the number of matching posts the  *)
(* store holds with createTime t, timeline.allPosts[t] the number of       *)
(* entries of allPosts with createTime t.  pages counts the calls of       *)
(* getTimeline; split records that a page ended between two posts of one   *)
(* createTime.                                                             *)
(***************************************************************************)
pageSize == 50

MaxTime == 3

Times == 1 .. MaxTime

PostCounts == {0, 1, pageSize - 1, pageSize, pageSize + 1}

InWindow(t, startTime, endTime) ==
  /\ startTime # Null => t >= startTime
  /\ endTime # Null => t <= endTime

\* The store's answer to getSnsTimeline(limit, 0, usernames, keyword,
\* startTime, endTime): the newest posts of the window, at most limit.
RECURSIVE NewerInWindow(_, _, _, _)
NewerInWindow(posts, t, startTime, endTime) ==
  IF t >= MaxTime THEN 0
  ELSE (IF InWindow(t + 1, startTime, endTime) THEN posts[t + 1] ELSE 0)
         + NewerInWindow(posts, t + 1, startTime, endTime)

getSnsTimeline(posts, limit, startTime, endTime) ==
  [t \in Times |->
     IF InWindow(t, startTime, endTime)
     THEN LET room == limit - NewerInWindow(posts, t, startTime, endTime)
          IN IF room <= 0 THEN 0 ELSE Min(posts[t], room)
     ELSE 0]

RECURSIVE PostsUpTo(_, _)
PostsUpTo(page, t) == IF t = 0 THEN 0 ELSE page[t] + PostsUpTo(page, t - 1)

PageLength(page) == PostsUpTo(page, MaxTime)

\* createTime of the last post of a page that is not empty.
LastCreateTime(page) == CHOOSE t \in Times : page[t] > 0 /\ PostsUpTo(page, t - 1) = 0

\* Lines 284-298.
ExportTimeline ==
  /\ kind = "export" /\ timeline.pc = "call"
  /\ timeline' = [timeline EXCEPT !.pc = "loop", !.endTs = timeline.endTime,
                                  !.hasMore = TRUE,
                                  !.allPosts = [t \in Times |-> 0]]
  /\ UNCHANGED <<reports, voice, transcribe, ranges>>

\* Lines 300-316: one turn of the loop; line 318 follows the last one.
ExportPage ==
  /\ kind = "export" /\ timeline.pc = "loop" /\ timeline.hasMore
  /\ LET page == getSnsTimeline(timeline.posts, pageSize, timeline.startTime,
                                timeline.endTs)
         length == PageLength(page)
     IN IF length > 0
        THEN LET lastTs == LastCreateTime(page) - 1
                 hasMore == /\ length >= pageSize
                            /\ ~(timeline.startTime \notin {Null, 0}
                                   /\ lastTs < timeline.startTime)
             IN timeline' =
                  [timeline EXCEPT
                     !.allPosts = [t \in Times |-> @[t] + page[t]],
                     !.endTs = lastTs,
                     !.hasMore = hasMore,
                     !.pages = @ + 1,
                     !.split = @ \/ page[lastTs + 1] < timeline.posts[lastTs + 1],
                     !.pc = IF hasMore THEN "loop" ELSE "loaded"]
        ELSE timeline' = [timeline EXCEPT !.hasMore = FALSE, !.pages = @ + 1,
                                          !.pc = "loaded"]
  /\ UNCHANGED <<reports, voice, transcribe, ranges>>

NextExport == ExportTimeline \/ ExportPage

ExportInit ==
  /\ InitRun(CursorStore, {"export"}, {2023}) /\ other = NoOther
  /\ timeline \in { [NoTimeline EXCEPT !.pc = "call", !.posts = posts,
                                       !.startTime = startTime,
                                       !.endTime = endTime] :
                      posts \in [Times -> PostCounts],
                      startTime \in {Null, 2}, endTime \in {Null, 2} }
  /\ voice = NoVoice /\ transcribe = NoTranscribe /\ ranges = NoRanges

SpecExport == ExportInit /\ [][NextExport]_vars

Matching(t) == InWindow(t, timeline.startTime, timeline.endTime)

Loading == timeline.pc \in {"loop", "loaded"}

\* C39: the page loop ends, and then allPosts holds every post of the
\* window once: none twice, none left out, also when posts of one
\* createTime lie on both sides of a page's end.
C39_EveryPostLoadedOnce ==
  Loading =>
    /\ timeline.pages <= MaxTime + 1
    /\ \A t \in Times :
         timeline.allPosts[t] <= (IF Matching(t) THEN timeline.posts[t] ELSE 0)
    /\ timeline.pc = "loaded" =>
         \A t \in Times : Matching(t) => timeline.allPosts[t] = timeline.posts[t]

\* A page of pageSize posts ended inside a group of pageSize + 1 posts of
\* one createTime; the loop has ended and one of those posts is missing.
C39_Witness ==
  /\ timeline.pc = "loaded" /\ timeline.split
  /\ \E t \in Times :
       /\ Matching(t) /\ timeline.posts[t] = pageSize + 1
       /\ timeline.allPosts[t] = pageSize

\* What holds: the loop ends, no post is loaded twice, and posts are left
\* out only when a page ended between posts of one createTime.
C39_CompleteUnlessSplit ==
  Loading =>
    /\ timeline.pages <= MaxTime + 1
    /\ \A t \in Times :
         timeline.allPosts[t] <= (IF Matching(t) THEN timeline.posts[t] ELSE 0)
    /\ (timeline.pc = "loaded" /\ ~timeline.split) =>
         \A t \in Times : Matching(t) => timeline.allPosts[t] = timeline.posts[t]

\* Several pages, no page ended inside a group, everything was loaded.
C39_WitnessComplete ==
  /\ timeline.pc = "loaded" /\ ~timeline.split /\ timeline.pages = 3
  /\ \A t \in Times : timeline.allPosts[t] = timeline.posts[t]

(***************************************************************************)
(* The multi-connection downloads: LlamaService.downloadModel (part_003    *)
(* 150-222) and VoiceTranscribeService.downloadToFile (sns.ts 1277-1349).  *)
(*                                                                         *)
(* ranges.service is the service whose download runs, probed whether       *)
(* probeUrl answered, totalSize and acceptRanges its answer, chunks the    *)
(* byte ranges handed to downloadChunk, in the order of the calls.         *)
(***************************************************************************)
threadCount == 4

MaxSize == 16

\* Line 1301: below this size downloadToFile uses one connection.
MultiThreshold == 2 * 1024 * 1024

\* Sizes probeUrl may report: around the threshold of each service.
SizesOf(service) ==
  IF service = "llama" THEN 0 .. MaxSize
  ELSE (MultiThreshold - 1) .. (MultiThreshold + MaxSize)

\* Math.ceil(totalSize / threadCount) for a size that is not negative.
CeilDiv(a, b) == (a + b - 1) \div b

\* part_003 lines 180-181 and 202-204, sns.ts lines 1307-1308 and
\* 1329-1331: the ranges of the four connections (i = k - 1).
ChunkRanges(totalSize) ==
  LET chunkSize == CeilDiv(totalSize, threadCount)
  IN [k \in 1 .. threadCount |->
        [start |-> (k - 1) * chunkSize,
         end |-> IF k - 1 = threadCount - 1
                 THEN totalSize - 1 ELSE k * chunkSize - 1]]

\* part_003 lines 150-170, sns.ts lines 1277-1296: the call up to the
\* answer of probeUrl; without an answer one connection downloads.
ProbeUrl ==
  /\ kind = "download" /\ ranges.pc = "call"
  /\ \/ ranges' = [ranges EXCEPT !.pc = "single"]
     \/ \E totalSize \in SizesOf(ranges.service), acceptRanges \in BOOLEAN :
          ranges' = [ranges EXCEPT !.pc = "probed", !.probed = TRUE,
                                   !.totalSize = totalSize,
                                   !.acceptRanges = acceptRanges]
  /\ UNCHANGED <<reports, voice, transcribe, timeline>>

\* part_003 lines 172-209.
LlamaDownload ==
  /\ kind = "download" /\ ranges.pc = "probed" /\ ranges.service = "llama"
  /\ ranges' =
       IF ranges.totalSize <= 0 \/ ~ranges.acceptRanges
       THEN [ranges EXCEPT !.pc = "single"]
       ELSE [ranges EXCEPT !.pc = "chunks",
                           !.chunks = ChunkRanges(ranges.totalSize)]
  /\ UNCHANGED <<reports, voice, transcribe, timeline>>

\* sns.ts lines 1298-1336.
DownloadToFile ==
  /\ kind = "download" /\ ranges.pc = "probed" /\ ranges.service = "voice"
  /\ ranges' =
       IF ranges.totalSize < MultiThreshold \/ ~ranges.acceptRanges
       THEN [ranges EXCEPT !.pc = "single"]
       ELSE [ranges EXCEPT !.pc = "chunks",
                           !.chunks = ChunkRanges(ranges.totalSize)]
  /\ UNCHANGED <<reports, voice, transcribe, timeline>>

NextDownload == ProbeUrl \/ LlamaDownload \/ DownloadToFile

DownloadInit ==
  /\ InitRun(CursorStore, {"download"}, {2023}) /\ other = NoOther
  /\ ranges \in { [NoRanges EXCEPT !.pc = "call", !.service = service] :
                    service \in {"llama", "voice"} }
  /\ voice = NoVoice /\ transcribe = NoTranscribe /\ timeline = NoTimeline

SpecDownload == DownloadInit /\ [][NextDownload]_vars

RangeLength(c) == c.end - c.start + 1

\* Four ranges that are not empty, lie within the file, do not overlap
\* and have its size in sum: they cover the bytes 0 .. totalSize - 1.
RangesCover(chunks, totalSize) ==
  /\ Len(chunks) = threadCount
  /\ \A k \in 1 .. threadCount :
       0 <= chunks[k].start /\ chunks[k].start <= chunks[k].end
         /\ chunks[k].end <= totalSize - 1
  /\ \A j \in 1 .. threadCount, k \in 1 .. threadCount :
       j < k => chunks[j].end < chunks[k].start \/ chunks[k].end < chunks[j].start
  /\ RangeLength(chunks[1]) + RangeLength(chunks[2]) + RangeLength(chunks[3])
       + RangeLength(chunks[4]) = totalSize

\* C40: whenever a download of either service has asked for its four byte
\* ranges, each range is non-empty and within the file (start <= end <=
\* totalSize - 1), no two ranges overlap, and together they cover the
\* bytes 0 .. totalSize - 1.
C40_RangesCoverFile ==
  ranges.pc = "chunks" => RangesCover(ranges.chunks, ranges.totalSize)

\* LlamaService asked for four ranges of a file of 5 bytes: the third
\* range lies past the end of the file and the fourth runs backwards.
C40_Witness ==
  /\ ranges.pc = "chunks" /\ ranges.service = "llama" /\ ranges.totalSize = 5
  /\ ranges.chunks[3] = [start |-> 4, end |-> 5]
  /\ ranges.chunks[4] = [start |-> 6, end |-> 4]

\* What holds: the ranges of downloadToFile always cover the file, and so
\* do those of LlamaService for files of 10 bytes and more.
C40_RangesCoverLargeFile ==
  (ranges.pc = "chunks" /\ ranges.totalSize >= 10)
    => RangesCover(ranges.chunks, ranges.totalSize)

\* downloadToFile asked for the ranges of a file just above its threshold.
C40_WitnessVoice ==
  /\ ranges.pc = "chunks" /\ ranges.service = "voice"
  /\ ranges.totalSize = MultiThreshold + 1
  /\ ranges.chunks[4] = [start |-> 1572867, end |-> MultiThreshold]

====
